---- MODULE Spec2Model ----
(***************************************************************************)
(* A model of wami's ecosystem-detection engine: the upward filesystem     *)
(* probe (utils/fs.ts), the user-override layer (applyConfig), the Python  *)
(* manifest parser and the detector registry (core/registry.ts).           *)
(*                                                                         *)
(* A directory is the sequence of its path segments, the filesystem root   *)
(* is the empty sequence, and a file path is the pair <<directory, name>>. *)
(***************************************************************************)
EXTENDS Integers, Sequences, FiniteSets, TLC

VARIABLES
  files,        \* the file paths that exist on disk
  malformed,    \* the files whose content does not parse (TOML.parse, JSON.parse throw)
  manifest,     \* what a Python manifest (pyproject.toml, Pipfile) declares
  wamiConfig,   \* what the override file (.wami.json, wami.json) declares
  pFn,          \* probe: which function runs, "first" (findFileUpwards) or "all"
  pCwd,         \* probe: the cwd argument
  pFile,        \* probe: the fileName argument
  currentDir,   \* probe: the local currentDir
  visited,      \* probe: the directories whose file was tested with fs.access, in order
  results,      \* probe: the results array of findAllFilesUpwards, which it returns
  pRet,         \* probe: what findFileUpwards returned (a directory or NoDir)
  pPc,          \* probe: "loop" while the while(true) runs, "done" after the return
  cArg,         \* override layer: the scripts argument as the caller passed it
  cScripts,     \* override layer: the caller's scripts array after the call
  cConfig,      \* override layer: the parsed override file
  cOut,         \* override layer: what PythonDetector.applyConfig returned
  gOut,         \* override layer: what GoDetector.applyConfig returned
  cPc,          \* override layer: "call" before applyConfig runs, "applied" after
  pyCwd,        \* Python detector: the cwd handed to detect
  pyRoot,       \* Python detector: what detect returned
  pyInfo,       \* Python detector: what parse returned, or Thrown
  pyPc,         \* Python detector: "detect", "parse", "done"
  packageJson,  \* what a package.json declares (name, scripts, dependencies)
  workspaceDirs,\* the directories whose package.json has a workspaces field
  unreadable,   \* the directories fs.readdir rejects on
  custom,       \* registry: how a detector added with register() behaves, or "absent"
  rCwd,         \* registry: the cwd handed to detect and detectAll
  dIdx,         \* registry.detect: the position of the for loop in this.detectors
  dLog,         \* registry.detect: the detector methods invoked so far, in order
  dResult,      \* registry.detect: the DetectionResult returned
  dPc,          \* registry.detect: "loop", "done", or "threw" were it to throw
  projects,     \* registry.detectAll: the local projects array
  scannedPaths, \* registry.detectAll: the local scannedPaths set
  aLog,         \* registry.detectAll: the <<phase, path>> pairs handed to tryDetect
  aPc,          \* registry.detectAll: the phase to run next, or "done"
  makefile,     \* what the Makefile declares: its .PHONY names and its rule targets
  taskfile,     \* the keys at two spaces of indentation below tasks: of the Taskfile
  goMod,        \* the module path go.mod declares, or Undefined
  nCwd,         \* Node.js detector: the cwd handed to detect
  nRoot,        \* Node.js detector: what detect returned
  nInfo,        \* Node.js detector: what parse returned, or Thrown
  nPc,          \* Node.js detector: "detect", "parse", "done"
  goCwd,        \* Go detector: the cwd handed to detect
  goRoot,       \* Go detector: what detect returned
  goInfo,       \* Go detector: what parse returned, or Thrown
  goPc,         \* Go detector: "detect", "parse", "done"
  bInfo,        \* buildCommand: the packageInfo argument (packageManager and scripts)
  bName,        \* buildCommand: the scriptName argument
  bOut,         \* buildCommand: the command string returned
  bPc,          \* buildCommand: "call" before it runs, "done" after
  store,        \* ~/.wami/history.json: for each project path, its history entries
  adds,         \* history: per project and command, the addToHistory calls since it was absent
  lastAdded,    \* history: per project, the command of the latest addToHistory call
  hCalls,       \* history: the number of calls made so far
  uHistory,     \* ScriptList: the history state, the entries shown above the scripts
  uScripts,     \* ScriptList: packageInfo.scripts
  selectedIndex,\* ScriptList: the index of the highlighted row, from 0
  isSearching,  \* ScriptList: whether key presses go to the search query
  searchQuery,  \* ScriptList: the search query, a sequence of characters
  screen,       \* ScriptList: "list", or the sub-screen shown over it
  ops,          \* the deleteFromHistory calls started and not awaited, in order
  tDeps,        \* Python tools: the dependencies argument, a set of package names
  tRoot,        \* Python tools: the projectRoot argument
  tRegistry,    \* Python tools: what pythonToolRegistry.detect returned
  tDetector,    \* Python tools: what detectPythonTools returned
  tPc           \* Python tools: the functions that have been called

fsVars == <<files, malformed, manifest, wamiConfig, packageJson, workspaceDirs, unreadable,
           makefile, taskfile, goMod>>
probeVars == <<pFn, pCwd, pFile, currentDir, visited, results, pRet, pPc>>
cfgVars == <<cArg, cScripts, cConfig, cOut, gOut, cPc>>
pyVars == <<pyCwd, pyRoot, pyInfo, pyPc>>
regVars == <<custom, rCwd, dIdx, dLog, dResult, dPc, projects, scannedPaths, aLog, aPc>>
nodeVars == <<nCwd, nRoot, nInfo, nPc>>
goVars == <<goCwd, goRoot, goInfo, goPc>>
buildVars == <<bInfo, bName, bOut, bPc>>
histVars == <<store, adds, lastAdded, hCalls>>
uiVars == <<uHistory, uScripts, selectedIndex, isSearching, searchQuery, screen, ops>>
toolVars == <<tDeps, tRoot, tRegistry, tDetector, tPc>>
vars == <<files, malformed, manifest, wamiConfig, packageJson, workspaceDirs, unreadable,
          makefile, taskfile, goMod,
          nCwd, nRoot, nInfo, nPc, goCwd, goRoot, goInfo, goPc, bInfo, bName, bOut, bPc,
          pFn, pCwd, pFile, currentDir, visited, results, pRet, pPc,
          cArg, cScripts, cConfig, cOut, gOut, cPc,
          pyCwd, pyRoot, pyInfo, pyPc,
          custom, rCwd, dIdx, dLog, dResult, dPc, projects, scannedPaths, aLog, aPc,
          store, adds, lastAdded, hCalls,
          uHistory, uScripts, selectedIndex, isSearching, searchQuery, screen, ops,
          tDeps, tRoot, tRegistry, tDetector, tPc>>

\* what a step of one part of the program leaves alone
exceptProbe == <<fsVars, cfgVars, pyVars, regVars, nodeVars, goVars, buildVars, histVars, uiVars, toolVars>>
exceptConfig == <<fsVars, probeVars, pyVars, regVars, nodeVars, goVars, buildVars, histVars, uiVars, toolVars>>
exceptPython == <<fsVars, probeVars, cfgVars, regVars, nodeVars, goVars, buildVars, histVars, uiVars, toolVars>>
exceptRegistry == <<fsVars, probeVars, cfgVars, pyVars, nodeVars, goVars, buildVars, histVars, uiVars, toolVars>>
exceptNode == <<fsVars, probeVars, cfgVars, pyVars, regVars, goVars, buildVars, histVars, uiVars, toolVars>>
exceptGo == <<fsVars, probeVars, cfgVars, pyVars, regVars, nodeVars, buildVars, histVars, uiVars, toolVars>>
exceptBuild == <<fsVars, probeVars, cfgVars, pyVars, regVars, nodeVars, goVars, histVars, uiVars, toolVars>>
exceptHistory == <<fsVars, probeVars, cfgVars, pyVars, regVars, nodeVars, goVars, buildVars, uiVars,
                  toolVars>>
exceptUI == <<fsVars, probeVars, cfgVars, pyVars, regVars, nodeVars, goVars, buildVars,
             adds, lastAdded, hCalls, toolVars>>
exceptTools == <<fsVars, probeVars, cfgVars, pyVars, regVars, nodeVars, goVars, buildVars,
                histVars, uiVars>>

-----------------------------------------------------------------------------
(* Bounds of the model.                                                    *)

\* the deepest starting directory of a probe, in segments below the root
MaxDepth == 3

\* the longest command list handed to the override layer
MaxScripts == 2

\* the longest ignore list of an override file
MaxIgnore == 2

\* the most entries in the commands object of an override file
MaxOverrides == 2

\* the most scripts a manifest's script table declares
MaxManifestScripts == 2

\* the most marker files in the repository the registry scans
MaxMarkers == 2

\* the most marker files whose content does not parse
MaxMalformed == 1

\* the most names on the .PHONY lines of a Makefile, and the most rules in it
MaxTargets == 2

\* the most keys below tasks: in a Taskfile
MaxTasks == 2

\* the most calls of the history functions in a run
MaxCalls == 2

\* the most characters typed into the search query
MaxQuery == 2

-----------------------------------------------------------------------------
(* Paths (node's path module on an absolute POSIX path).                   *)

\* path.parse(dir).root
root == <<>>

\* the value null where a directory is expected
NoDir == <<"null">>

\* path.dirname(dir): the parent directory; the root is its own parent
dirname(dir) == IF dir = root THEN root ELSE SubSeq(dir, 1, Len(dir) - 1)

\* path.join(dir, fileName)
join(dir, fileName) == <<dir, fileName>>

\* fs.access(filePath) resolves (true) or rejects (false)
fileExists(filePath) == filePath \in files

\* the segment names of the chain of directories a probe starts in
Segments == <<"home", "user", "work", "app", "src", "lib", "core">>

\* the directory n segments below the root on that chain
ChainDir(n) == SubSeq(Segments, 1, n)

\* dir and its ancestors
RECURSIVE Ancestors(_)
Ancestors(dir) == IF dir = root THEN {root} ELSE {dir} \cup Ancestors(dirname(dir))

\* the marker file names a probe is asked for
ProbeNames == {"package.json", "pyproject.toml"}

-----------------------------------------------------------------------------
(* utils/fs.ts: findFileUpwards and findAllFilesUpwards as functions.      *)

RECURSIVE findFileUpwards(_, _)
findFileUpwards(cwd, fileName) ==
  IF fileExists(join(cwd, fileName)) THEN cwd
  ELSE IF cwd = root THEN NoDir
  ELSE findFileUpwards(dirname(cwd), fileName)

RECURSIVE findAllFilesUpwards(_, _)
findAllFilesUpwards(cwd, fileName) ==
  LET here == IF fileExists(join(cwd, fileName)) THEN <<cwd>> ELSE <<>>
  IN  IF cwd = root THEN here
      ELSE here \o findAllFilesUpwards(dirname(cwd), fileName)

-----------------------------------------------------------------------------
(* The user-override layer: applyConfig of PythonDetector and GoDetector.  *)

\* an optional property that is not set
Undefined == "undefined"

\* the command names of the model
ScriptNames == {"test", "install", "lint"}

\* the command a parser gives a script of that name; a command string is the
\* sequence of its words
OrigCommand(name) ==
  CASE name = "test" -> <<"pytest">>
    [] name = "install" -> <<"pip", "install", "-e", ".">>
    [] OTHER -> <<"ruff", "check">>

\* a Script as a parser produces it
OrigScript(name) == [name |-> name, command |-> OrigCommand(name), description |-> Undefined]

\* the values of an entry of config.commands: a string, or an object with a
\* command and a description
OverrideValues ==
  { [isString |-> TRUE, command |-> <<"pytest", "-x">>, description |-> Undefined],
    [isString |-> FALSE, command |-> <<"make", "check">>, description |-> "Run the checks"] }

\* the sequences over S of length n, and of length at most n
SeqsOfLen(S, n) == [1..n -> S]
SeqsUpTo(S, n) == UNION { SeqsOfLen(S, k) : k \in 0..n }

\* the subsets of S of at most k elements
RECURSIVE SubsetsUpTo(_, _)
SubsetsUpTo(S, k) ==
  IF k = 0 THEN {{}}
  ELSE LET smaller == SubsetsUpTo(S, k - 1)
       IN  smaller \cup { p \cup {x} : p \in smaller, x \in S }

\* the elements of a sequence
Range(seq) == { seq[i] : i \in 1..Len(seq) }

\* Object.entries of a parsed JSON object: its keys are distinct
DistinctKeys(entries) ==
  \A i, j \in 1..Len(entries) : entries[i].name = entries[j].name => i = j

\* the override files of the model; a missing commands or ignore field is the
\* empty one (config.commands || {}, config.ignore || [])
Configs ==
  { [commands |-> c, ignore |-> g] :
      c \in { e \in SeqsUpTo([name : ScriptNames, value : OverrideValues], MaxOverrides) :
                DistinctKeys(e) },
      g \in SeqsUpTo(ScriptNames, MaxIgnore) }

\* Array.prototype.findIndex on the names, from 1; 0 where the code has -1
findIndex(scripts, name) ==
  IF \E i \in 1..Len(scripts) : scripts[i].name = name
  THEN CHOOSE i \in 1..Len(scripts) :
         /\ scripts[i].name = name
         /\ \A j \in 1..(i - 1) : scripts[j].name # name
  ELSE 0

\* ignoreList.includes(name)
includes(list, x) == \E i \in 1..Len(list) : list[i] = x

\* a filter that drops, for each entry of the ignore list, only the first script
\* of that name (a splice per ignored name)
RECURSIVE ignoreFilterFirstOnly(_, _)
ignoreFilterFirstOnly(scripts, ignoreList) ==
  IF ignoreList = <<>> THEN scripts
  ELSE LET i == findIndex(scripts, Head(ignoreList))
           rest == IF i = 0 THEN scripts
                   ELSE SubSeq(scripts, 1, i - 1) \o SubSeq(scripts, i + 1, Len(scripts))
       IN  ignoreFilterFirstOnly(rest, Tail(ignoreList))

\* scripts.filter((script) => !ignoreList.includes(script.name)): a new array
ignoreFilter(scripts, ignoreList) ==
  SelectSeq(scripts, LAMBDA script : ~includes(ignoreList, script.name))

\* the Script built from one entry of config.commands
overrideScript(entry) ==
  IF entry.value.isString
  THEN [name |-> entry.name, command |-> entry.value.command, description |-> Undefined]
  ELSE [name |-> entry.name, command |-> entry.value.command,
        description |-> entry.value.description]

\* the loop over the overrides as a bug would leave it: every override is pushed
RECURSIVE applyCommandsAppendOnly(_, _)
applyCommandsAppendOnly(filteredScripts, entries) ==
  IF entries = <<>> THEN filteredScripts
  ELSE applyCommandsAppendOnly(Append(filteredScripts, overrideScript(Head(entries))),
                               Tail(entries))

\* for (const [name, cmdConfig] of Object.entries(configCommands)) { ... }
RECURSIVE applyCommands(_, _)
applyCommands(filteredScripts, entries) ==
  IF entries = <<>> THEN filteredScripts
  ELSE LET script == overrideScript(Head(entries))
           existingIndex == findIndex(filteredScripts, Head(entries).name)
       IN  applyCommands(
             IF existingIndex >= 1
             THEN [filteredScripts EXCEPT ![existingIndex] = script]
             ELSE Append(filteredScripts, script),
             Tail(entries))

\* applyConfig as a bug would leave it: the overrides first, the ignore filter last
applyConfigIgnoreLast(scripts, config) ==
  ignoreFilter(applyCommands(scripts, config.commands), config.ignore)

\* PythonDetector.applyConfig
applyConfig(scripts, config) ==
  applyCommands(ignoreFilter(scripts, config.ignore), config.commands)

\* GoDetector.applyConfig: the same two steps
goApplyConfig(scripts, config) ==
  LET filtered == SelectSeq(scripts, LAMBDA s : ~includes(config.ignore, s.name))
  IN  applyCommands(filtered, config.commands)

\* an override file that declares nothing
EmptyConfig == [commands |-> <<>>, ignore |-> <<>>]

ConfigIdle ==
  /\ cArg = <<>> /\ cScripts = <<>> /\ cConfig = EmptyConfig
  /\ cOut = <<>> /\ gOut = <<>> /\ cPc = "idle"

ConfigInit ==
  /\ cArg \in SeqsUpTo({ OrigScript(n) : n \in ScriptNames }, MaxScripts)
  /\ cScripts = cArg
  /\ cConfig \in Configs
  /\ cOut = <<>>
  /\ gOut = <<>>
  /\ cPc = "call"

\* scripts = this.applyConfig(scripts, config), once by each detector; the
\* caller's array is not written to
ApplyConfig ==
  /\ cPc = "call"
  /\ cOut' = applyConfig(cScripts, cConfig)
  /\ gOut' = goApplyConfig(cScripts, cConfig)
  /\ cPc' = "applied"
  /\ UNCHANGED <<cArg, cScripts, cConfig, exceptConfig>>

\* applying the same override file to the list it produced
ApplyConfigAgain ==
  /\ cPc = "applied"
  /\ cOut' = applyConfig(cOut, cConfig)
  /\ gOut' = goApplyConfig(gOut, cConfig)
  /\ cPc' = "reapplied"
  /\ UNCHANGED <<cArg, cScripts, cConfig, exceptConfig>>

ConfigNext == ApplyConfig \/ ApplyConfigAgain

-----------------------------------------------------------------------------
(* The same two loops, one iteration of while(true) per step.              *)

ProbeIdle ==
  /\ pFn = "none" /\ pCwd = root /\ pFile = "" /\ currentDir = root
  /\ visited = <<>> /\ results = <<>> /\ pRet = NoDir /\ pPc = "idle"

\* the filesystems a probe runs on: any files named ProbeNames on the chain
ProbeInit ==
  /\ \E n \in 0..MaxDepth :
       /\ pCwd = ChainDir(n)
       /\ files \in SUBSET { join(ChainDir(k), f) : k \in 0..MaxDepth, f \in ProbeNames }
  /\ pFn \in {"first", "all"}
  /\ pFile \in ProbeNames
  /\ currentDir = pCwd
  /\ visited = <<>>
  /\ results = <<>>
  /\ pRet = NoDir
  /\ pPc = "loop"

\* the step of the loop as a bug would leave it: the walk never reaches the test
\* against root and goes on from the root's parent, which is the root again
FindStepNoRootStop ==
  /\ pPc = "loop" /\ pFn = "first"
  /\ visited' = Append(visited, currentDir)
  /\ IF fileExists(join(currentDir, pFile))
     THEN /\ pRet' = currentDir /\ pPc' = "done" /\ UNCHANGED currentDir
     ELSE /\ currentDir' = dirname(currentDir) /\ UNCHANGED <<pRet, pPc>>
  /\ UNCHANGED <<pFn, pCwd, pFile, results, exceptProbe>>

\* the step of the loop as a bug would leave it: a miss skips the parent
FindStepSkipsParent ==
  /\ pPc = "loop" /\ pFn = "first"
  /\ visited' = Append(visited, currentDir)
  /\ IF fileExists(join(currentDir, pFile))
     THEN /\ pRet' = currentDir /\ pPc' = "done" /\ UNCHANGED currentDir
     ELSE IF currentDir = root \/ dirname(currentDir) = root
     THEN /\ pRet' = NoDir /\ pPc' = "done" /\ UNCHANGED currentDir
     ELSE /\ currentDir' = dirname(dirname(currentDir)) /\ UNCHANGED <<pRet, pPc>>
  /\ UNCHANGED <<pFn, pCwd, pFile, results, exceptProbe>>

\* findFileUpwards: one iteration of while(true)
FindStep ==
  /\ pPc = "loop" /\ pFn = "first"
  /\ visited' = Append(visited, currentDir)
  /\ IF fileExists(join(currentDir, pFile))
     THEN /\ pRet' = currentDir /\ pPc' = "done" /\ UNCHANGED currentDir
     ELSE IF currentDir = root
     THEN /\ pRet' = NoDir /\ pPc' = "done" /\ UNCHANGED currentDir
     ELSE /\ currentDir' = dirname(currentDir) /\ UNCHANGED <<pRet, pPc>>
  /\ UNCHANGED <<pFn, pCwd, pFile, results, exceptProbe>>

\* findAllFilesUpwards: one iteration of while(true)
FindAllStep ==
  /\ pPc = "loop" /\ pFn = "all"
  /\ visited' = Append(visited, currentDir)
  /\ LET found == IF fileExists(join(currentDir, pFile))
                  THEN Append(results, currentDir) ELSE results
     IN  /\ results' = found
         /\ IF currentDir = root
            THEN /\ pPc' = "done" /\ UNCHANGED <<currentDir, pRet>>
            ELSE /\ currentDir' = dirname(currentDir) /\ UNCHANGED <<pRet, pPc>>
  /\ UNCHANGED <<pFn, pCwd, pFile, exceptProbe>>

ProbeNext == FindStep \/ FindAllStep


-----------------------------------------------------------------------------
(* PythonDetector (detect, parse and what parse calls).                    *)

\* the project root of the model and the directory below it
ProjectRoot == ChainDir(2)
ProjectSrc == ChainDir(3)

\* path.basename(dir)
basename(dir) == IF dir = root THEN "" ELSE dir[Len(dir)]

\* a path where none is set (venvPath || undefined)
NoPath == <<NoDir, "">>

\* a || b on two path strings: a unless a is the empty string
pathOr(a, b) == IF a[1] = root /\ a[2] = "" THEN b ELSE a

\* the tables of a pyproject.toml the detector reads
TomlTables == {"tool.poetry", "tool.pdm", "project"}

\* the script names a manifest declares and the name it gives the project
ManifestNames == {"test", "install"}
ManifestName == "demo"

\* the value of a declared script: an entry point
DeclaredValue(name) ==
  IF name = "test" THEN <<"scripts.check:main">> ELSE <<"scripts.setup:run">>

\* the dependency strings a manifest lists and the poe tasks it defines
DependencyStrings == {"pytest>=7.0"}
PoeTaskNames == {"test"}

\* a manifest that declares nothing
EmptyManifest ==
  [tables |-> {}, scriptsDeclared |-> FALSE, scripts |-> <<>>, deps |-> {}, poeTasks |-> <<>>]

\* the manifests of the model: every table that is present carries the same
\* name and, when declared, the same script table (keys distinct, as in TOML)
Manifests ==
  { [tables |-> t, scriptsDeclared |-> TRUE, scripts |-> sc, deps |-> dp, poeTasks |-> pt] :
      t \in SUBSET TomlTables,
      sc \in { q \in SeqsUpTo(ManifestNames, MaxManifestScripts) :
                 \A i, j \in 1..Len(q) : q[i] = q[j] => i = j },
      dp \in SUBSET DependencyStrings,
      pt \in SeqsUpTo(PoeTaskNames, 1) }
  \cup
  { [tables |-> t, scriptsDeclared |-> FALSE, scripts |-> <<>>, deps |-> dp, poeTasks |-> pt] :
      t \in SUBSET TomlTables,
      dp \in SUBSET DependencyStrings,
      pt \in SeqsUpTo(PoeTaskNames, 1) }

\* dep.match(/^([a-zA-Z0-9_-]+)/)[1].toLowerCase()
extractDependencyName(dep) == IF dep = "pytest>=7.0" THEN "pytest" ELSE dep

\* collectAllDependencies: the names of the declared dependencies
collectAllDependencies(toml) == { extractDependencyName(dep) : dep \in toml.deps }

\* a Script literal
Script(name, command, description) ==
  [name |-> name, command |-> command, description |-> description]

\* detectPythonTools of python/tool-detector.ts: the scripts of each tool whose
\* package is among the dependencies, in the order of the if statements; the
\* emoji that opens each description is written as its short code
detectPythonTools(dependencies, projectRoot) ==
  LET docsDir == IF fileExists(join(projectRoot, "docs")) THEN "docs" ELSE "."
      docsOut == IF fileExists(join(projectRoot, "docs")) THEN "docs/_build" ELSE "./_build"
      tool(pkg, scripts) == IF pkg \in dependencies THEN scripts ELSE <<>>
  IN  tool("ruff", <<
        Script("ruff-check", <<"ruff", "check">>, ":mag: Run ruff linter"),
        Script("ruff-check-fix", <<"ruff", "check", "--fix">>,
               ":wrench: Run ruff linter and auto-fix issues"),
        Script("ruff-format", <<"ruff", "format">>, ":sparkles: Format code with ruff"),
        Script("ruff-format-check", <<"ruff", "format", "--check">>,
               ":eyes: Check if code is formatted")>>)
      \o tool("pytest", <<
        Script("test", <<"pytest">>, ":test_tube: Run all tests"),
        Script("test-verbose", <<"pytest", "-v">>, ":test_tube: Run tests with verbose output"),
        Script("test-cov", <<"pytest", "--cov">>, ":bar_chart: Run tests with coverage report")>>)
      \o tool("black", <<
        Script("black", <<"black", ".">>, ":sparkles: Format code with black"),
        Script("black-check", <<"black", "--check", ".">>, ":eyes: Check if code is formatted")>>)
      \o tool("mypy", <<Script("mypy", <<"mypy", ".">>, ":mag: Run mypy type checker")>>)
      \o tool("pyright", <<Script("pyright", <<"pyright">>, ":mag: Run pyright type checker")>>)
      \o tool("isort", <<
        Script("isort", <<"isort", ".">>, ":bookmark_tabs: Sort imports with isort"),
        Script("isort-check", <<"isort", "--check-only", ".">>, ":eyes: Check import sorting")>>)
      \o tool("flake8", <<Script("flake8", <<"flake8">>, ":mag: Run flake8 linter")>>)
      \o tool("pylint", <<Script("pylint", <<"pylint", "src">>, ":mag: Run pylint linter")>>)
      \o tool("coverage", <<
        Script("coverage-run", <<"coverage", "run", "-m", "pytest">>,
               ":bar_chart: Run tests with coverage"),
        Script("coverage-report", <<"coverage", "report">>, ":bar_chart: Show coverage report"),
        Script("coverage-html", <<"coverage", "html">>, ":bar_chart: Generate HTML coverage report")>>)
      \o tool("pre-commit", <<
        Script("pre-commit-install", <<"pre-commit", "install">>, ":hook: Install pre-commit hooks"),
        Script("pre-commit-run", <<"pre-commit", "run", "--all-files">>,
               ":hook: Run pre-commit on all files")>>)
      \o tool("bandit", <<Script("bandit", <<"bandit", "-r", ".">>,
                                 ":lock: Run security checks with bandit")>>)
      \o tool("sphinx", <<Script("docs-build",
                                 <<"sphinx-build", "-b", "html", docsDir, docsOut>>,
                                 ":books: Build documentation with Sphinx")>>)

\* `poe:${taskName}` and `Run poe task: ${taskName}`
poeName(taskName) == IF taskName = "test" THEN "poe:test" ELSE "poe:other"
poeDescription(taskName) ==
  IF taskName = "test" THEN "Run poe task: test" ELSE "Run poe task: other"

\* pythonParserRegistry.parseAll(toml): the poe tasks, each a string command
parseAll(toml) ==
  [i \in 1..Len(toml.poeTasks) |->
     Script(poeName(toml.poeTasks[i]), <<"poe", toml.poeTasks[i]>>,
            poeDescription(toml.poeTasks[i]))]

\* PythonDetector.detect: pyproject.toml, then Pipfile, then requirements.txt
pythonDetect(cwd) ==
  LET pyprojectRoot == findFileUpwards(cwd, "pyproject.toml")
      pipfileRoot == findFileUpwards(cwd, "Pipfile")
      reqRoot == findFileUpwards(cwd, "requirements.txt")
  IN  IF pyprojectRoot # NoDir THEN pyprojectRoot
      ELSE IF pipfileRoot # NoDir THEN pipfileRoot
      ELSE IF reqRoot # NoDir THEN reqRoot
      ELSE NoDir

\* detectPackageManager with the tables looked at before any lock file: a pdm
\* table wins over a poetry.lock
detectPackageManagerTablesFirst(projectRoot, toml) ==
  IF fileExists(join(projectRoot, "pyproject.toml"))
  THEN IF "tool.poetry" \in toml.tables THEN "poetry"
       ELSE IF "tool.pdm" \in toml.tables THEN "pdm"
       ELSE IF fileExists(join(projectRoot, "poetry.lock")) THEN "poetry"
       ELSE IF fileExists(join(projectRoot, "pdm.lock")) THEN "pdm"
       ELSE IF fileExists(join(projectRoot, "uv.lock")) THEN "uv"
       ELSE "pip"
  ELSE IF fileExists(join(projectRoot, "Pipfile")) THEN "pipenv"
  ELSE "pip"

\* PythonDetector.detectPackageManager, once the manifest has parsed
detectPackageManager(projectRoot, toml) ==
  IF fileExists(join(projectRoot, "pyproject.toml"))
  THEN LET hasPoetryLock == fileExists(join(projectRoot, "poetry.lock"))
           hasPdmLock == fileExists(join(projectRoot, "pdm.lock"))
           hasUvLock == fileExists(join(projectRoot, "uv.lock"))
       IN  IF "tool.poetry" \in toml.tables \/ hasPoetryLock THEN "poetry"
           ELSE IF "tool.pdm" \in toml.tables \/ hasPdmLock THEN "pdm"
           ELSE IF hasUvLock THEN "uv"
           ELSE "pip"
  ELSE IF fileExists(join(projectRoot, "Pipfile")) THEN "pipenv"
  ELSE "pip"

\* toml.<table>?.scripts: the keys of the script table of a table, when both exist
scriptsOf(toml, table) ==
  IF table \in toml.tables /\ toml.scriptsDeclared THEN toml.scripts ELSE <<>>

\* toml.<table>?.name
nameOf(toml, table) == IF table \in toml.tables THEN ManifestName ELSE Undefined

\* a || b on two optional strings
strOr(a, b) == IF a = Undefined \/ a = "" THEN b ELSE a

\* the scripts parsePyProject builds before the task runners and the tools
managerScripts(toml, packageManager) ==
  LET entries(table, cmd(_)) ==
        [i \in 1..Len(scriptsOf(toml, table)) |->
           [name |-> scriptsOf(toml, table)[i],
            command |-> cmd(scriptsOf(toml, table)[i]),
            description |-> Undefined]]
      uvRun(key) == <<"uv", "run", key>>
      pythonM(key) == <<"python", "-m", key>>
  IN  IF packageManager = "poetry"
      THEN entries("tool.poetry", DeclaredValue) \o
           << Script("install", <<"poetry", "install">>, Undefined),
              Script("shell", <<"poetry", "shell">>, Undefined),
              Script("run", <<"poetry", "run", "python">>, Undefined) >>
      ELSE IF packageManager = "pdm"
      THEN entries("tool.pdm", DeclaredValue) \o
           << Script("install", <<"pdm", "install">>, Undefined),
              Script("run", <<"pdm", "run">>, Undefined) >>
      ELSE IF packageManager = "uv"
      THEN entries("project", uvRun) \o
           << Script("sync", <<"uv", "sync">>, "Install and sync dependencies"),
              Script("python", <<"uv", "run", "python">>, "Run Python interpreter") >>
      ELSE IF "project" \in toml.tables /\ toml.scriptsDeclared
      THEN entries("project", pythonM) \o
           << Script("install", <<"pip", "install", "-e", ".">>,
                     "Install package in editable mode") >>
      ELSE <<>>

\* parsePyProject pushing every inferred tool command, without the filter on
\* the names that exist
parsePyProjectAllTools(projectRoot, toml, packageManager) ==
  [name |-> basename(projectRoot),
   scripts |-> managerScripts(toml, packageManager) \o parseAll(toml)
               \o detectPythonTools(collectAllDependencies(toml), projectRoot)]

\* PythonDetector.parsePyProject: name and scripts
parsePyProject(projectRoot, toml, packageManager) ==
  LET base == basename(projectRoot)
      name == IF packageManager = "poetry" THEN strOr(nameOf(toml, "tool.poetry"), base)
              ELSE IF packageManager = "pdm"
              THEN strOr(nameOf(toml, "tool.pdm"), strOr(nameOf(toml, "project"), base))
              ELSE IF packageManager = "uv" THEN strOr(nameOf(toml, "project"), base)
              ELSE IF "project" \in toml.tables /\ toml.scriptsDeclared
              THEN strOr(nameOf(toml, "project"), base)
              ELSE base
      scripts == managerScripts(toml, packageManager) \o parseAll(toml)
      toolScripts == detectPythonTools(collectAllDependencies(toml), projectRoot)
      existingScriptNames == { scripts[i].name : i \in 1..Len(scripts) }
      uniqueToolScripts ==
        SelectSeq(toolScripts, LAMBDA t : t.name \notin existingScriptNames)
  IN  [name |-> name, scripts |-> scripts \o uniqueToolScripts]

\* PythonDetector.parsePipfile: the [scripts] table, then the pipenv commands
parsePipfile(pipfile) ==
  [i \in 1..Len(pipfile.scripts) |->
     Script(pipfile.scripts[i], DeclaredValue(pipfile.scripts[i]), Undefined)]
  \o << Script("install", <<"pipenv", "install">>, Undefined),
        Script("shell", <<"pipenv", "shell">>, Undefined),
        Script("run", <<"pipenv", "run">>, Undefined) >>

\* PythonDetector.getDefaultPipScripts
getDefaultPipScripts ==
  << Script("install", <<"pip", "install", "-r", "requirements.txt">>, Undefined),
     Script("freeze", <<"pip", "freeze", ">", "requirements.txt">>, Undefined) >>

\* utils/config.ts detectVenv: the first of .venv, venv, env that exists
detectVenv(projectRoot) ==
  IF fileExists(join(projectRoot, ".venv")) THEN join(projectRoot, ".venv")
  ELSE IF fileExists(join(projectRoot, "venv")) THEN join(projectRoot, "venv")
  ELSE IF fileExists(join(projectRoot, "env")) THEN join(projectRoot, "env")
  ELSE NoPath

\* utils/config.ts loadConfig: the first of .wami.json, wami.json that exists,
\* parsed; null when neither exists or the one found does not parse
loadConfig(projectRoot) ==
  LET first == IF fileExists(join(projectRoot, ".wami.json"))
               THEN join(projectRoot, ".wami.json")
               ELSE IF fileExists(join(projectRoot, "wami.json"))
               THEN join(projectRoot, "wami.json")
               ELSE NoPath
  IN  IF first = NoPath \/ first \in malformed
      THEN [isNull |-> TRUE, commands |-> <<>>, ignore |-> <<>>]
      ELSE [isNull |-> FALSE, commands |-> wamiConfig.commands, ignore |-> wamiConfig.ignore]

\* the result of a parse that threw
Thrown == [threw |-> TRUE]

\* pyprojectPath || pipfilePath || requirementsPath
markerPath(pyprojectPath, pipfilePath, requirementsPath) ==
  pathOr(pathOr(pyprojectPath, pipfilePath), requirementsPath)

\* PythonDetector.parse, up to loadConfig: the name and the scripts the first
\* marker file of the root gives
parsedMarker(projectRoot) ==
  LET pyprojectPath == join(projectRoot, "pyproject.toml")
      pipfilePath == join(projectRoot, "Pipfile")
      requirementsPath == join(projectRoot, "requirements.txt")
      packageManager == detectPackageManager(projectRoot, manifest)
  IN  IF fileExists(pyprojectPath)
      THEN parsePyProject(projectRoot, manifest, packageManager)
      ELSE IF fileExists(pipfilePath)
      THEN [name |-> basename(projectRoot), scripts |-> parsePipfile(manifest)]
      ELSE IF fileExists(requirementsPath)
      THEN [name |-> basename(projectRoot), scripts |-> getDefaultPipScripts]
      ELSE [name |-> basename(projectRoot), scripts |-> <<>>]

\* PythonDetector.parse
pythonParse(projectRoot) ==
  LET pyprojectPath == join(projectRoot, "pyproject.toml")
      pipfilePath == join(projectRoot, "Pipfile")
      requirementsPath == join(projectRoot, "requirements.txt")
      packageManager == detectPackageManager(projectRoot, manifest)
      parsed == parsedMarker(projectRoot)
      venvPath == detectVenv(projectRoot)
      config == loadConfig(projectRoot)
  IN  IF \/ fileExists(pyprojectPath) /\ pyprojectPath \in malformed
         \/ ~fileExists(pyprojectPath) /\ fileExists(pipfilePath) /\ pipfilePath \in malformed
      THEN Thrown
      ELSE [threw |-> FALSE,
            path |-> markerPath(pyprojectPath, pipfilePath, requirementsPath),
            name |-> parsed.name,
            packageManager |-> packageManager,
            scripts |-> IF config.isNull THEN parsed.scripts
                        ELSE applyConfig(parsed.scripts, config),
            hasVenv |-> venvPath # NoPath,
            venvPath |-> venvPath]

PyIdle == pyCwd = root /\ pyRoot = NoDir /\ pyInfo = Thrown /\ pyPc = "idle"

\* the override files a parsed project carries
ProjectConfigs ==
  { EmptyConfig,
    [commands |-> <<>>, ignore |-> <<"install">>],
    [commands |-> <<[name |-> "install",
                     value |-> [isString |-> TRUE, command |-> <<"pytest", "-x">>,
                                description |-> Undefined]]>>,
     ignore |-> <<>>],
    [commands |-> <<[name |-> "test",
                     value |-> [isString |-> TRUE, command |-> <<"pytest", "-x">>,
                                description |-> Undefined]]>>,
     ignore |-> <<"test">>] }

\* a project root holding at least one Python marker file, any of the lock
\* files, and possibly a virtual environment and an override file; the
\* .wami.json may be one that is not valid JSON, alone or next to a wami.json
\* that parses, and wamiConfig is the content of the file that parses
PyInit ==
  /\ pyCwd = ProjectSrc
  /\ \E markers \in (SUBSET {"pyproject.toml", "Pipfile", "requirements.txt"}) \ {{}},
        locks \in SUBSET {"poetry.lock", "pdm.lock", "uv.lock"},
        venv \in SUBSET {".venv"},
        cfg \in { <<{}, EmptyConfig, {}>>, <<{"wami.json"}, EmptyConfig, {}>> }
                \cup { <<{".wami.json"}, c, {}>> : c \in ProjectConfigs }
                \cup { <<{".wami.json"}, EmptyConfig, {".wami.json"}>>,
                       <<{".wami.json", "wami.json"},
                         [commands |-> <<>>, ignore |-> <<"install">>], {".wami.json"}>> } :
       /\ files = { join(ProjectRoot, f) : f \in markers \cup locks \cup venv \cup cfg[1] }
       /\ wamiConfig = cfg[2]
       /\ malformed = { join(ProjectRoot, f) : f \in cfg[3] }
  /\ manifest \in Manifests
  /\ pyRoot = NoDir
  /\ pyInfo = Thrown
  /\ pyPc = "detect"

\* the marker files PythonDetector.detect looks for
PythonMarkers == {"pyproject.toml", "Pipfile", "requirements.txt"}

\* a chain of directories above the working directory, each with any of the
\* Python marker files, none with content
PyChainInit ==
  /\ pyCwd = ProjectSrc
  /\ files \in SUBSET { join(d, f) : d \in Ancestors(ProjectSrc) \ {root}, f \in PythonMarkers }
  /\ wamiConfig = EmptyConfig
  /\ malformed = {}
  /\ manifest = EmptyManifest
  /\ pyRoot = NoDir
  /\ pyInfo = Thrown
  /\ pyPc = "detect"

\* const projectRoot = await detector.detect(cwd)
PyDetect ==
  /\ pyPc = "detect"
  /\ pyRoot' = pythonDetect(pyCwd)
  /\ pyPc' = IF pythonDetect(pyCwd) = NoDir THEN "done" ELSE "parse"
  /\ UNCHANGED <<pyCwd, pyInfo, exceptPython>>

\* const packageInfo = await detector.parse(projectRoot)
PyParse ==
  /\ pyPc = "parse"
  /\ pyInfo' = pythonParse(pyRoot)
  /\ pyPc' = "done"
  /\ UNCHANGED <<pyCwd, pyRoot, exceptPython>>

PyNext == PyDetect \/ PyParse

-----------------------------------------------------------------------------
(* NodeJSDetector (detect, parse and what parse calls).                    *)

\* a package.json that declares nothing
EmptyPackageJson == [name |-> Undefined, scripts |-> <<>>, deps |-> {}]

\* the package.json contents of the model: the script names are distinct, as
\* the keys of a JSON object are
PackageJsons ==
  { EmptyPackageJson,
    [name |-> "web", scripts |-> <<"build", "eslint">>, deps |-> {"eslint", "typescript"}] }

\* the command string of a declared script
NodeCommand(name) == IF name = "build" THEN <<"tsc">> ELSE <<"node", name>>

\* NodeJSDetector.detect
nodeDetect(cwd) == findFileUpwards(cwd, "package.json")

\* NODE_PACKAGE_MANAGERS, in detection priority
NODE_PACKAGE_MANAGERS ==
  << [id |-> "bun", lockFiles |-> {"bun.lockb", "bun.lock"}],
     [id |-> "pnpm", lockFiles |-> {"pnpm-lock.yaml"}],
     [id |-> "yarn", lockFiles |-> {"yarn.lock"}],
     [id |-> "npm", lockFiles |-> {"package-lock.json"}] >>

\* detectPackageManager with the loop running to its end: the last definition
\* one of whose lock files is present wins
nodeDetectPackageManagerLastWins(projectRoot) ==
  LET has(i) == \E lockFile \in NODE_PACKAGE_MANAGERS[i].lockFiles :
                   fileExists(join(projectRoot, lockFile))
      hits == { i \in 1..Len(NODE_PACKAGE_MANAGERS) : has(i) }
  IN  IF hits = {} THEN "npm"
      ELSE NODE_PACKAGE_MANAGERS[CHOOSE i \in hits : \A j \in hits : i >= j].id

\* NodeJSDetector.detectPackageManager: the first definition one of whose lock
\* files is present, npm when none is
nodeDetectPackageManager(projectRoot) ==
  LET has(i) == \E lockFile \in NODE_PACKAGE_MANAGERS[i].lockFiles :
                   fileExists(join(projectRoot, lockFile))
      hits == { i \in 1..Len(NODE_PACKAGE_MANAGERS) : has(i) }
  IN  IF hits = {} THEN "npm"
      ELSE NODE_PACKAGE_MANAGERS[CHOOSE i \in hits : \A j \in hits : i <= j].id

\* NodeJSDetector.extractScripts
extractScripts(pkg) ==
  [ i \in 1..Len(pkg.scripts) |->
      Script(pkg.scripts[i], NodeCommand(pkg.scripts[i]), Undefined) ]

\* NodeJSDetector.detectToolCommands: the scripts of each tool that is among the
\* dependencies, in the order of the if statements
detectToolCommands(pkg, projectRoot) ==
  LET dependencies == pkg.deps
      tool(present, scripts) == IF present THEN scripts ELSE <<>>
      has(dep) == dep \in dependencies
  IN  tool(has("typescript") /\ fileExists(join(projectRoot, "tsconfig.json")), <<
        Script("tsc", <<"tsc", "--noEmit">>, "Type check with TypeScript"),
        Script("tsc-build", <<"tsc">>, "Build TypeScript project")>>)
      \o tool(has("eslint"), <<
        Script("eslint", <<"eslint", ".">>, "Lint code with ESLint"),
        Script("eslint-fix", <<"eslint", ".", "--fix">>, "Lint and auto-fix issues")>>)
      \o tool(has("prettier"), <<
        Script("prettier-check", <<"prettier", "--check", ".">>, "Check code formatting"),
        Script("prettier-write", <<"prettier", "--write", ".">>,
               "Format code with Prettier")>>)
      \o tool(has("@biomejs/biome") \/ has("biome"), <<
        Script("biome-check", <<"biome", "check", ".">>, "Check code with Biome"),
        Script("biome-check-fix", <<"biome", "check", "--write", ".">>,
               "Check and auto-fix with Biome"),
        Script("biome-format", <<"biome", "format", "--write", ".">>,
               "Format code with Biome")>>)
      \o tool(has("vitest"), <<
        Script("vitest", <<"vitest">>, "Run tests with Vitest"),
        Script("vitest-ui", <<"vitest", "--ui">>, "Run tests with Vitest UI"),
        Script("vitest-run", <<"vitest", "run">>, "Run tests once"),
        Script("vitest-coverage", <<"vitest", "--coverage">>, "Run tests with coverage")>>)
      \o tool(has("jest") \/ has("@jest/core"), <<
        Script("jest", <<"jest">>, "Run tests with Jest"),
        Script("jest-watch", <<"jest", "--watch">>, "Run tests in watch mode"),
        Script("jest-coverage", <<"jest", "--coverage">>, "Run tests with coverage")>>)
      \o tool(has("@playwright/test") \/ has("playwright"), <<
        Script("playwright-test", <<"playwright", "test">>, "Run Playwright tests"),
        Script("playwright-ui", <<"playwright", "test", "--ui">>,
               "Run Playwright tests with UI"),
        Script("playwright-debug", <<"playwright", "test", "--debug">>,
               "Debug Playwright tests")>>)
      \o tool(has("cypress"), <<
        Script("cypress-open", <<"cypress", "open">>, "Open Cypress test runner"),
        Script("cypress-run", <<"cypress", "run">>, "Run Cypress tests headlessly")>>)
      \o tool(has("vite"), <<
        Script("vite-dev", <<"vite">>, "Start Vite dev server"),
        Script("vite-build", <<"vite", "build">>, "Build with Vite"),
        Script("vite-preview", <<"vite", "preview">>, "Preview Vite build")>>)
      \o tool(has("turbo"), <<
        Script("turbo-build", <<"turbo", "build">>, "Build with Turbo"),
        Script("turbo-dev", <<"turbo", "dev">>, "Start dev mode with Turbo"),
        Script("turbo-test", <<"turbo", "test">>, "Run tests with Turbo")>>)
      \o tool(has("nx") \/ has("@nx/workspace"), <<
        Script("nx-build", <<"nx", "build">>, "Build with Nx"),
        Script("nx-test", <<"nx", "test">>, "Run tests with Nx"),
        Script("nx-graph", <<"nx", "graph">>, "View project graph")>>)
      \o tool(has("typescript") /\ ~includes(pkg.scripts, "typecheck"), <<
        Script("typecheck", <<"tsc", "--noEmit">>, "Type check code")>>)
      \o tool(has("stylelint"), <<
        Script("stylelint", <<"stylelint", "\"**/*.css\"">>, "Lint CSS files"),
        Script("stylelint-fix", <<"stylelint", "\"**/*.css\"", "--fix">>,
               "Lint and fix CSS files")>>)
      \o tool(has("@storybook/react") \/ has("storybook"), <<
        Script("storybook", <<"storybook", "dev">>, "Start Storybook dev server"),
        Script("storybook-build", <<"storybook", "build">>, "Build Storybook")>>)

\* no Workspace Info (undefined)
NoWorkspace == [isWorkspace |-> FALSE, workspaceRoot |-> NoDir,
                workspaceName |-> Undefined, relativePath |-> <<>>]

\* path.relative(from, to) for a directory to below from
relative(from, to) == SubSeq(to, Len(from) + 1, Len(to))

\* the loop of detectWorkspace run from the outermost manifest inward
RECURSIVE workspaceFromOutermost(_, _)
workspaceFromOutermost(allPackageRoots, i) ==
  IF i > Len(allPackageRoots) THEN [threw |-> FALSE, workspace |-> NoWorkspace]
  ELSE LET parentRoot == allPackageRoots[Len(allPackageRoots) + 2 - i]
       IN  IF join(parentRoot, "package.json") \in malformed THEN Thrown
           ELSE IF parentRoot \in workspaceDirs
           THEN [threw |-> FALSE,
                 workspace |-> [isWorkspace |-> TRUE,
                                workspaceRoot |-> parentRoot,
                                workspaceName |-> strOr(packageJson.name, basename(parentRoot)),
                                relativePath |-> relative(parentRoot, allPackageRoots[1])]]
           ELSE workspaceFromOutermost(allPackageRoots, i + 1)

\* the loop of detectWorkspace with the two roots taken one for the other: the
\* current package root is recorded as the workspace root
RECURSIVE workspaceFromSwapped(_, _)
workspaceFromSwapped(allPackageRoots, i) ==
  IF i > Len(allPackageRoots) THEN [threw |-> FALSE, workspace |-> NoWorkspace]
  ELSE LET parentRoot == allPackageRoots[i]
       IN  IF join(parentRoot, "package.json") \in malformed THEN Thrown
           ELSE IF parentRoot \in workspaceDirs
           THEN [threw |-> FALSE,
                 workspace |-> [isWorkspace |-> TRUE,
                                workspaceRoot |-> allPackageRoots[1],
                                workspaceName |-> strOr(packageJson.name, basename(parentRoot)),
                                relativePath |-> relative(parentRoot, allPackageRoots[1])]]
           ELSE workspaceFromSwapped(allPackageRoots, i + 1)

\* the loop of detectWorkspace over allPackageRoots[i], i >= 1 (here from 2):
\* readJsonFile throws on a manifest that does not parse
RECURSIVE workspaceFrom(_, _)
workspaceFrom(allPackageRoots, i) ==
  IF i > Len(allPackageRoots) THEN [threw |-> FALSE, workspace |-> NoWorkspace]
  ELSE LET parentRoot == allPackageRoots[i]
       IN  IF join(parentRoot, "package.json") \in malformed THEN Thrown
           ELSE IF parentRoot \in workspaceDirs
           THEN [threw |-> FALSE,
                 workspace |-> [isWorkspace |-> TRUE,
                                workspaceRoot |-> parentRoot,
                                workspaceName |-> strOr(packageJson.name, basename(parentRoot)),
                                relativePath |-> relative(parentRoot, allPackageRoots[1])]]
           ELSE workspaceFrom(allPackageRoots, i + 1)

\* detectWorkspace with the loop started at the current manifest (let i = 0)
detectWorkspaceFromNearest(projectRoot) ==
  LET allPackageRoots == findAllFilesUpwards(projectRoot, "package.json")
  IN  IF Len(allPackageRoots) <= 1 THEN [threw |-> FALSE, workspace |-> NoWorkspace]
      ELSE workspaceFrom(allPackageRoots, 1)

\* NodeJSDetector.detectWorkspace
detectWorkspace(projectRoot) ==
  LET allPackageRoots == findAllFilesUpwards(projectRoot, "package.json")
  IN  IF Len(allPackageRoots) <= 1 THEN [threw |-> FALSE, workspace |-> NoWorkspace]
      ELSE workspaceFrom(allPackageRoots, 2)

\* NodeJSDetector.parse: readJsonFile throws when package.json is missing or
\* does not parse
nodeParse(projectRoot) ==
  LET packageJsonPath == join(projectRoot, "package.json")
      scripts == extractScripts(packageJson)
      toolScripts == detectToolCommands(packageJson, projectRoot)
      uniqueToolScripts ==
        SelectSeq(toolScripts, LAMBDA t : ~includes(packageJson.scripts, t.name))
      workspace == detectWorkspace(projectRoot)
  IN  IF ~fileExists(packageJsonPath) \/ packageJsonPath \in malformed THEN Thrown
      ELSE IF workspace.threw THEN Thrown
      ELSE [threw |-> FALSE,
            path |-> packageJsonPath,
            name |-> strOr(packageJson.name, basename(projectRoot)),
            packageManager |-> nodeDetectPackageManager(projectRoot),
            scripts |-> scripts \o uniqueToolScripts,
            workspace |-> workspace.workspace]

\* the project root of the model: three segments below the filesystem root
NodeRoot == ChainDir(3)

\* the lock files NODE_PACKAGE_MANAGERS names
NodeLockFiles == UNION { NODE_PACKAGE_MANAGERS[i].lockFiles : i \in 1..Len(NODE_PACKAGE_MANAGERS) }

\* the override file of the configuration guide's Node.js example, cut to one
\* command and one ignored name
NodeConfigs ==
  { [commands |-> <<[name |-> "docker-up",
                     value |-> [isString |-> TRUE, command |-> <<"docker-compose", "up", "-d">>,
                                description |-> Undefined]]>>,
     ignore |-> <<"build">>] }

\* what the Go detector reads, when there is nothing to read
EmptyMakefile == [phony |-> <<>>, rules |-> <<>>]

NoGoContent == makefile = EmptyMakefile /\ taskfile = <<>> /\ goMod = Undefined

NodeIdle == nCwd = root /\ nRoot = NoDir /\ nInfo = Thrown /\ nPc = "idle"

\* a project root with package.json, any of the lock files and possibly an
\* override file; any of its ancestors may hold a package.json too, any of the
\* manifests may declare workspaces, and at most MaxMalformed of them do not parse
NodeInit ==
  /\ nCwd = NodeRoot
  /\ \E above \in SUBSET (Ancestors(NodeRoot) \ {NodeRoot}),
        locks \in SUBSET NodeLockFiles,
        cfg \in {<<{}, EmptyConfig>>} \cup { <<{".wami.json"}, c>> : c \in NodeConfigs } :
       LET manifests == { join(d, "package.json") : d \in above \cup {NodeRoot} }
       IN  /\ files = manifests \cup { join(NodeRoot, f) : f \in locks \cup cfg[1] }
           /\ workspaceDirs \in SUBSET (above \cup {NodeRoot})
           /\ malformed \in SubsetsUpTo(manifests, MaxMalformed)
           /\ wamiConfig = cfg[2]
  /\ packageJson \in PackageJsons
  /\ manifest = EmptyManifest
  /\ unreadable = {}
  /\ NoGoContent
  /\ nRoot = NoDir
  /\ nInfo = Thrown
  /\ nPc = "detect"

\* const projectRoot = await detector.detect(cwd)
NodeDetect ==
  /\ nPc = "detect"
  /\ nRoot' = nodeDetect(nCwd)
  /\ nPc' = IF nodeDetect(nCwd) = NoDir THEN "done" ELSE "parse"
  /\ UNCHANGED <<nCwd, nInfo, exceptNode>>

\* const packageInfo = await detector.parse(projectRoot)
NodeParse ==
  /\ nPc = "parse"
  /\ nInfo' = nodeParse(nRoot)
  /\ nPc' = "done"
  /\ UNCHANGED <<nCwd, nRoot, exceptNode>>

NodeNext == NodeDetect \/ NodeParse

-----------------------------------------------------------------------------
(* GoDetector (core/go/detector.ts).                                       *)

\* the project root of the model and the directory below it
GoRoot == ChainDir(2)
GoSrc == ChainDir(3)

\* the target names a Makefile of the model uses and the keys a Taskfile has
\* at two spaces of indentation
MakeTargets == {"build", "test", "lint"}
TaskKeys == {"build", "lint", "desc"}

\* `make:${target}`, `Run make ${target}`, `task:${taskName}`, `Run task ${taskName}`
makeName(target) ==
  CASE target = "build" -> "make:build" [] target = "test" -> "make:test"
    [] OTHER -> "make:lint"
makeDescription(target) ==
  CASE target = "build" -> "Run make build" [] target = "test" -> "Run make test"
    [] OTHER -> "Run make lint"
taskName(key) ==
  CASE key = "build" -> "task:build" [] key = "lint" -> "task:lint" [] OTHER -> "task:desc"
taskDescription(key) ==
  CASE key = "build" -> "Run task build" [] key = "lint" -> "Run task lint"
    [] OTHER -> "Run task desc"

\* GoDetector.detect
goDetect(cwd) == findFileUpwards(cwd, "go.mod")

\* parseModuleName and path.basename(moduleName)
moduleBasename(moduleName) == IF moduleName = "github.com/acme/tool" THEN "tool" ELSE moduleName

\* GoDetector.getDefaultGoScripts
getDefaultGoScripts ==
  << Script("run", <<"go", "run", ".">>, "Run the main package"),
     Script("build", <<"go", "build", "./...">>, "Build all packages"),
     Script("test", <<"go", "test", "./...">>, "Run all tests"),
     Script("test:race", <<"go", "test", "-race", "./...">>, "Run tests with race detector"),
     Script("test:cover", <<"go", "test", "-cover", "./...">>, "Run tests with coverage"),
     Script("vet", <<"go", "vet", "./...">>, "Run go vet"),
     Script("tidy", <<"go", "mod", "tidy">>, "Tidy module dependencies"),
     Script("download", <<"go", "mod", "download">>, "Download module dependencies"),
     Script("generate", <<"go", "generate", "./...">>, "Run code generation") >>

\* the elements of a sequence in the order of their first occurrence, as the
\* iteration of a Set they were added to gives them
RECURSIVE insertionOrder(_)
insertionOrder(seq) ==
  IF seq = <<>> THEN <<>>
  ELSE LET front == insertionOrder(SubSeq(seq, 1, Len(seq) - 1))
           last == seq[Len(seq)]
       IN  IF includes(front, last) THEN front ELSE Append(front, last)

\* GoDetector.parseMakefile: the .PHONY names, then the rule targets, each once
parseMakefile(content) ==
  LET targets == insertionOrder(content.phony \o content.rules)
  IN  [ i \in 1..Len(targets) |->
          Script(makeName(targets[i]), <<"make", targets[i]>>, makeDescription(targets[i])) ]

\* GoDetector.findTaskfile: the first of the four names that exists
findTaskfile(projectRoot) ==
  IF fileExists(join(projectRoot, "Taskfile.yml")) THEN join(projectRoot, "Taskfile.yml")
  ELSE IF fileExists(join(projectRoot, "Taskfile.yaml")) THEN join(projectRoot, "Taskfile.yaml")
  ELSE IF fileExists(join(projectRoot, "taskfile.yml")) THEN join(projectRoot, "taskfile.yml")
  ELSE IF fileExists(join(projectRoot, "taskfile.yaml")) THEN join(projectRoot, "taskfile.yaml")
  ELSE NoPath

\* the keys parseTaskfile skips
reserved == {"cmds", "desc", "vars", "env", "deps", "generates", "sources", "dir", "silent"}

\* GoDetector.parseTaskfile: a script for each key that is not reserved
parseTaskfile(content) ==
  LET keys == SelectSeq(content, LAMBDA key : key \notin reserved)
  IN  [ i \in 1..Len(keys) |->
          Script(taskName(keys[i]), <<"task", keys[i]>>, taskDescription(keys[i])) ]

\* the target or task a command name stands for: the name without make: or task:
targetOf(name) ==
  CASE name \in {"make:build", "task:build"} -> "build"
    [] name = "make:test" -> "test"
    [] name \in {"make:lint", "task:lint"} -> "lint"
    [] OTHER -> name

\* the filter of the built-in commands comparing with the targets instead of
\* the command names: build is dropped when the Makefile has a build target
defaultScriptsByTarget(scripts) ==
  SelectSeq(getDefaultGoScripts,
            LAMBDA s : \A i \in 1..Len(scripts) : targetOf(scripts[i].name) # s.name)

\* getDefaultGoScripts().filter((s) => !existingNames.has(s.name))
defaultScripts(scripts) ==
  SelectSeq(getDefaultGoScripts, LAMBDA s : ~includes([ i \in 1..Len(scripts) |-> scripts[i].name ], s.name))

\* GoDetector.parse: fs.readFile throws when go.mod is missing
goParse(projectRoot) ==
  LET goModPath == join(projectRoot, "go.mod")
      makeScripts == IF fileExists(join(projectRoot, "Makefile"))
                     THEN parseMakefile(makefile) ELSE <<>>
      taskScripts == IF findTaskfile(projectRoot) # NoPath
                     THEN parseTaskfile(taskfile) ELSE <<>>
      scripts == makeScripts \o taskScripts
      config == loadConfig(projectRoot)
  IN  IF ~fileExists(goModPath) THEN Thrown
      ELSE [threw |-> FALSE,
            path |-> goModPath,
            name |-> IF goMod # Undefined THEN moduleBasename(goMod)
                     ELSE basename(projectRoot),
            packageManager |-> "go",
            scripts |-> IF config.isNull THEN scripts \o defaultScripts(scripts)
                        ELSE goApplyConfig(scripts \o defaultScripts(scripts), config)]

GoIdle == goCwd = root /\ goRoot = NoDir /\ goInfo = Thrown /\ goPc = "idle"

\* a Go module with or without a Makefile, a Taskfile and an override file
GoInit ==
  /\ goCwd = GoSrc
  /\ \E mk \in {<<{}, EmptyMakefile>>}
               \cup { <<{"Makefile"}, [phony |-> ph, rules |-> ru]>> :
                        ph \in SeqsUpTo(MakeTargets, MaxTargets),
                        ru \in SeqsUpTo(MakeTargets, MaxTargets) },
        tk \in {<<{}, <<>>>>}
               \cup { <<{f}, keys>> :
                        f \in {"Taskfile.yml", "taskfile.yaml"},
                        keys \in { q \in SeqsUpTo(TaskKeys, MaxTasks) :
                                     \A i, j \in 1..Len(q) : q[i] = q[j] => i = j } },
        cfg \in { <<{}, EmptyConfig>>,
                  <<{".wami.json"}, [commands |-> <<>>, ignore |-> <<"build">>]>> } :
       /\ files = { join(GoRoot, f) : f \in {"go.mod"} \cup mk[1] \cup tk[1] \cup cfg[1] }
       /\ makefile = mk[2]
       /\ taskfile = tk[2]
       /\ wamiConfig = cfg[2]
  /\ goMod \in {Undefined, "github.com/acme/tool"}
  /\ malformed = {} /\ manifest = EmptyManifest
  /\ packageJson = EmptyPackageJson /\ workspaceDirs = {} /\ unreadable = {}
  /\ goRoot = NoDir
  /\ goInfo = Thrown
  /\ goPc = "detect"

\* const projectRoot = await detector.detect(cwd)
GoDetect ==
  /\ goPc = "detect"
  /\ goRoot' = goDetect(goCwd)
  /\ goPc' = IF goDetect(goCwd) = NoDir THEN "done" ELSE "parse"
  /\ UNCHANGED <<goCwd, goInfo, exceptGo>>

\* const packageInfo = await detector.parse(projectRoot)
GoParse ==
  /\ goPc = "parse"
  /\ goInfo' = goParse(goRoot)
  /\ goPc' = "done"
  /\ UNCHANGED <<goCwd, goRoot, exceptGo>>

GoNext == GoDetect \/ GoParse

-----------------------------------------------------------------------------
(* PythonDetector.buildCommand.                                            *)

\* the package managers of a Python project
PythonPackageManagers == {"uv", "poetry", "pdm", "pipenv", "pip"}

\* the manager names that occur in a word of a command string: a word is a
\* maximal run of characters other than the space
namesIn(word) ==
  CASE word = "uvicorn" -> {"uv"}
    [] word = "pipenv" -> {"pipenv", "pip"}
    [] word \in PythonPackageManagers -> {word}
    [] OTHER -> {}

\* word.endsWith(s) and word.startsWith(s) for the words of the model
endsWith(word, s) == word = s \/ (s = "run" /\ word = "scripts.setup:run")
startsWith(word, s) == word = s \/ (s = "run" /\ word = "runserver")

\* command.includes(needle) for a needle of one word without spaces, or of two
\* words separated by one space: the two must meet at a space of the command
includesString(command, needle) ==
  IF Len(needle) = 1
  THEN \E i \in 1..Len(command) : needle[1] \in namesIn(command[i])
  ELSE \E i \in 1..(Len(command) - 1) :
          endsWith(command[i], needle[1]) /\ startsWith(command[i + 1], needle[2])

\* scripts.find((s) => s.name === scriptName): the first of that name
find(scripts, scriptName) == scripts[findIndex(scripts, scriptName)]

\* the template strings of the two switch statements: `uv run ${x}` and so on
runPrefix(manager) ==
  CASE manager = "uv" -> <<"uv", "run">>
    [] manager = "poetry" -> <<"poetry", "run">>
    [] manager = "pdm" -> <<"pdm", "run">>
    [] manager = "pipenv" -> <<"pipenv", "run">>
    [] OTHER -> <<>>

\* buildCommand with the test for an invocation already in the command left out
buildCommandAlwaysWraps(packageInfo, scriptName) ==
  LET manager == packageInfo.packageManager
  IN  IF findIndex(packageInfo.scripts, scriptName) >= 1
      THEN runPrefix(manager) \o find(packageInfo.scripts, scriptName).command
      ELSE IF runPrefix(manager) = <<>> THEN <<"python", scriptName>>
      ELSE Append(runPrefix(manager), scriptName)

\* PythonDetector.buildCommand
buildCommand(packageInfo, scriptName) ==
  LET manager == packageInfo.packageManager
      script == find(packageInfo.scripts, scriptName)
  IN  IF findIndex(packageInfo.scripts, scriptName) >= 1
      THEN IF \/ includesString(script.command, <<manager>>)
              \/ includesString(script.command, <<"uv", "run">>)
              \/ includesString(script.command, <<"poetry", "run">>)
              \/ includesString(script.command, <<"pdm", "run">>)
              \/ includesString(script.command, <<"pipenv", "run">>)
           THEN script.command
           ELSE runPrefix(manager) \o script.command
      ELSE IF runPrefix(manager) = <<>> THEN <<"python", scriptName>>
      ELSE Append(runPrefix(manager), scriptName)

\* the command strings a Python command list holds: bare tools, commands that
\* name a manager, and commands already wrapped in a manager's run
BuildCommands ==
  { <<"pytest">>,
    <<"uvicorn", "main:app">>,
    <<"python", "manage.py", "runserver">>,
    <<"uv", "run", "pytest">>,
    <<"poetry", "run", "pytest">>,
    <<"pdm", "run", "lint">>,
    <<"pipenv", "run", "serve">>,
    <<"pip", "install", "-r", "requirements.txt">> }

BuildNames == {"test", "serve"}

BuildIdle == bInfo = Thrown /\ bName = "" /\ bOut = <<>> /\ bPc = "idle"

\* a PackageInfo of a Python project and the name the user picked or typed
BuildInit ==
  /\ \E pm \in PythonPackageManagers,
        scripts \in SeqsUpTo({ Script(n, c, Undefined) : n \in BuildNames, c \in BuildCommands },
                             MaxScripts) :
       bInfo = [threw |-> FALSE, packageManager |-> pm, scripts |-> scripts]
  /\ bName \in BuildNames \cup {"missing"}
  /\ bOut = <<>>
  /\ bPc = "call"

\* const command = detector.buildCommand(packageInfo, scriptName)
BuildCommand ==
  /\ bPc = "call"
  /\ bOut' = buildCommand(bInfo, bName)
  /\ bPc' = "done"
  /\ UNCHANGED <<bInfo, bName, exceptBuild>>

BuildNext == BuildCommand

-----------------------------------------------------------------------------
(* DetectorRegistry (core/registry.ts): detect and detectAll.              *)

\* the directories of the model, in the order fs.readdir lists them: a
\* repository with the working directory app, a sibling, a hidden sibling, and
\* below app a dependency directory and three levels of packages
TreeListing ==
  << <<"repo">>,
     <<"repo", ".cache">>,
     <<"repo", "app">>,
     <<"repo", "lib">>,
     <<"repo", "app", "node_modules">>,
     <<"repo", "app", "pkg">>,
     <<"repo", "app", "pkg", "sub">>,
     <<"repo", "app", "pkg", "sub", "deep">> >>

RegCwd == <<"repo", "app">>

\* the marker files a directory of the model may hold
RegMarkers == {"pyproject.toml", "package.json"}

\* the directories of the tree that may hold a go.mod: the working directory
\* and the one above it
GoModDirs == {RegCwd, dirname(RegCwd)}

\* how a detector added with register() may behave
CustomBehaviours == {"detectThrows", "detectNull", "parseThrows", "ok"}

\* this.detectors: the constructor registers Python, then Node.js; register()
\* pushes at the end
detectors ==
  IF custom = "absent" THEN <<"Python", "Node.js">>
  ELSE <<"Python", "Node.js", "Custom">>

\* await detector.detect(cwd): whether it threw, and the root or null
detectorDetect(detector, cwd) ==
  CASE detector = "Python" -> [threw |-> FALSE, root |-> pythonDetect(cwd)]
    [] detector = "Node.js" -> [threw |-> FALSE, root |-> nodeDetect(cwd)]
    [] OTHER -> IF custom = "detectThrows" THEN [threw |-> TRUE, root |-> NoDir]
                ELSE IF custom = "detectNull" THEN [threw |-> FALSE, root |-> NoDir]
                ELSE [threw |-> FALSE, root |-> cwd]

\* await detector.parse(projectRoot): a PackageInfo, or Thrown
detectorParse(detector, projectRoot) ==
  CASE detector = "Python" -> pythonParse(projectRoot)
    [] detector = "Node.js" -> nodeParse(projectRoot)
    [] OTHER -> IF custom = "parseThrows" THEN Thrown
                ELSE [threw |-> FALSE,
                      path |-> join(projectRoot, "custom.json"),
                      name |-> basename(projectRoot),
                      packageManager |-> "custom",
                      scripts |-> <<>>]

\* { found: true, packageInfo, detector }
Found(packageInfo, detector) ==
  [found |-> TRUE, packageInfo |-> packageInfo, detector |-> detector]

\* { found: false, error: '...' }
NotFound ==
  [found |-> FALSE,
   error |-> "No supported project found in current directory or parent directories"]

\* no DetectionResult yet
Pending == [pending |-> TRUE]

\* fs.readdir(dir, { withFileTypes: true }), the directories among the entries
\* as path.join(dir, entry.name)
readdir(dir) ==
  IF dir \in unreadable THEN [threw |-> TRUE, entries |-> <<>>]
  ELSE [threw |-> FALSE,
        entries |-> SelectSeq(TreeListing, LAMBDA d : d # root /\ dirname(d) = dir)]

\* entry.name.startsWith('.')
startsWithDot(name) == name \in {".cache", ".git", ".venv"}

\* maxDepth: number = 2
maxDepth == 2

\* the for loop of tryDetect from detector i on, with the check of scannedPaths
\* left out
RECURSIVE tryFromNoSeen(_, _, _)
tryFromNoSeen(i, st, path) ==
  IF i > Len(detectors) THEN st
  ELSE LET detector == detectors[i]
           r == detectorDetect(detector, path)
           added == [st EXCEPT !.scannedPaths = @ \cup {r.root}]
           packageInfo == detectorParse(detector, r.root)
       IN  IF r.threw \/ r.root = NoDir THEN tryFromNoSeen(i + 1, st, path)
           ELSE IF packageInfo.threw THEN tryFromNoSeen(i + 1, added, path)
           ELSE [added EXCEPT !.projects = Append(@, Found(packageInfo, detector))]

\* the for loop of tryDetect from detector i on: a throw goes to the next
\* detector, a root seen before or a project pushed ends the loop
RECURSIVE tryFrom(_, _, _)
tryFrom(i, st, path) ==
  IF i > Len(detectors) THEN st
  ELSE LET detector == detectors[i]
           r == detectorDetect(detector, path)
           added == [st EXCEPT !.scannedPaths = @ \cup {r.root}]
           packageInfo == detectorParse(detector, r.root)
       IN  IF r.threw \/ r.root = NoDir THEN tryFrom(i + 1, st, path)
           ELSE IF r.root \in st.scannedPaths THEN st
           ELSE IF packageInfo.threw THEN tryFrom(i + 1, added, path)
           ELSE [added EXCEPT !.projects = Append(@, Found(packageInfo, detector))]

\* await tryDetect(path), called in that phase of detectAll
tryDetect(st, phase, path) ==
  tryFrom(1, [st EXCEPT !.aLog = Append(@, <<phase, path>>)], path)

\* for (const sibling of siblings) await tryDetect(siblingPath)
RECURSIVE scanSiblings(_, _)
scanSiblings(st, siblings) ==
  IF siblings = <<>> THEN st
  ELSE scanSiblings(tryDetect(st, "siblings", Head(siblings)), Tail(siblings))

\* scanChildren(basePath, depth) and its loop over the entries
RECURSIVE scanChildren(_, _, _)
RECURSIVE scanEntries(_, _, _)
scanChildren(st, basePath, depth) ==
  IF depth > maxDepth THEN st
  ELSE IF readdir(basePath).threw THEN st
  ELSE scanEntries(st, readdir(basePath).entries, depth)

scanEntries(st, entries, depth) ==
  IF entries = <<>> THEN st
  ELSE LET childPath == Head(entries)
           probed == tryDetect(st, "children", childPath)
           below == IF depth < maxDepth THEN scanChildren(probed, childPath, depth + 1)
                    ELSE probed
       IN  IF startsWithDot(basename(childPath)) \/ basename(childPath) = "node_modules"
           THEN scanEntries(st, Tail(entries), depth)
           ELSE scanEntries(below, Tail(entries), depth)

RegIdle ==
  /\ custom = "absent" /\ rCwd = root /\ dIdx = 0 /\ dLog = <<>> /\ dResult = Pending
  /\ dPc = "idle" /\ projects = <<>> /\ scannedPaths = {} /\ aLog = <<>> /\ aPc = "idle"

\* a repository with at most MaxMarkers marker files, at most MaxMalformed of
\* them not parsing, and the registry as constructed or with one more detector
RegInit ==
  /\ files \in SubsetsUpTo({ join(TreeListing[k], f) : k \in 1..Len(TreeListing),
                                                       f \in RegMarkers }
                           \cup { join(d, "go.mod") : d \in GoModDirs }, MaxMarkers)
  /\ malformed \in SubsetsUpTo({ f \in files : f[2] \in RegMarkers }, MaxMalformed)
  /\ manifest = EmptyManifest
  /\ wamiConfig = EmptyConfig
  /\ packageJson \in PackageJsons
  /\ workspaceDirs = {}
  /\ NoGoContent
  /\ unreadable \in {{}, {RegCwd}}
  /\ custom \in {"absent"} \cup CustomBehaviours
  /\ rCwd = RegCwd
  /\ dIdx = 1
  /\ dLog = <<>>
  /\ dResult = Pending
  /\ dPc = "loop"
  /\ projects = <<>>
  /\ scannedPaths = {}
  /\ aLog = <<>>
  /\ aPc = "current"

\* one iteration of the loop of detect with the try and catch taken away: what
\* a detector throws leaves detect
DetectTryNoCatch ==
  /\ dPc = "loop" /\ dIdx <= Len(detectors)
  /\ LET detector == detectors[dIdx]
         r == detectorDetect(detector, rCwd)
         packageInfo == detectorParse(detector, r.root)
     IN  IF r.threw
         THEN /\ dLog' = Append(dLog, <<detector, "detect">>)
              /\ dPc' = "threw" /\ UNCHANGED <<dIdx, dResult>>
         ELSE IF r.root = NoDir
         THEN /\ dLog' = Append(dLog, <<detector, "detect">>)
              /\ dIdx' = dIdx + 1 /\ UNCHANGED <<dResult, dPc>>
         ELSE /\ dLog' = dLog \o << <<detector, "detect">>, <<detector, "parse">> >>
              /\ IF packageInfo.threw
                 THEN dPc' = "threw" /\ UNCHANGED <<dIdx, dResult>>
                 ELSE /\ dResult' = Found(packageInfo, detector)
                      /\ dPc' = "done" /\ UNCHANGED dIdx
  /\ UNCHANGED <<custom, rCwd, projects, scannedPaths, aLog, aPc, exceptRegistry>>

\* one iteration of the loop of detect that does not return on a success: the
\* result is kept and the loop goes on to the next detector
DetectTryNoReturn ==
  /\ dPc = "loop" /\ dIdx <= Len(detectors)
  /\ LET detector == detectors[dIdx]
         r == detectorDetect(detector, rCwd)
         packageInfo == detectorParse(detector, r.root)
     IN  IF r.threw \/ r.root = NoDir
         THEN /\ dLog' = Append(dLog, <<detector, "detect">>)
              /\ dIdx' = dIdx + 1 /\ UNCHANGED <<dResult, dPc>>
         ELSE /\ dLog' = dLog \o << <<detector, "detect">>, <<detector, "parse">> >>
              /\ dIdx' = dIdx + 1
              /\ dResult' = IF packageInfo.threw THEN dResult
                            ELSE Found(packageInfo, detector)
              /\ dPc' = IF dIdx = Len(detectors) /\ ~packageInfo.threw THEN "done" ELSE dPc
  /\ UNCHANGED <<custom, rCwd, projects, scannedPaths, aLog, aPc, exceptRegistry>>

\* detect: one iteration of for (const detector of this.detectors)
DetectTry ==
  /\ dPc = "loop" /\ dIdx <= Len(detectors)
  /\ LET detector == detectors[dIdx]
         r == detectorDetect(detector, rCwd)
         packageInfo == detectorParse(detector, r.root)
     IN  IF r.threw \/ r.root = NoDir
         THEN /\ dLog' = Append(dLog, <<detector, "detect">>)
              /\ dIdx' = dIdx + 1 /\ UNCHANGED <<dResult, dPc>>
         ELSE /\ dLog' = dLog \o << <<detector, "detect">>, <<detector, "parse">> >>
              /\ IF packageInfo.threw
                 THEN dIdx' = dIdx + 1 /\ UNCHANGED <<dResult, dPc>>
                 ELSE /\ dResult' = Found(packageInfo, detector)
                      /\ dPc' = "done" /\ UNCHANGED dIdx
  /\ UNCHANGED <<custom, rCwd, projects, scannedPaths, aLog, aPc, exceptRegistry>>

\* detect: the return after the loop
DetectNone ==
  /\ dPc = "loop" /\ dIdx > Len(detectors)
  /\ dResult' = NotFound
  /\ dPc' = "done"
  /\ UNCHANGED <<custom, rCwd, dIdx, dLog, projects, scannedPaths, aLog, aPc, exceptRegistry>>

\* the locals of detectAll as one record, and their assignment
allState == [projects |-> projects, scannedPaths |-> scannedPaths, aLog |-> aLog]

allAssign(st, pc) ==
  /\ projects' = st.projects
  /\ scannedPaths' = st.scannedPaths
  /\ aLog' = st.aLog
  /\ aPc' = pc
  /\ UNCHANGED <<custom, rCwd, dIdx, dLog, dResult, dPc, exceptRegistry>>

\* detectAll, 1: await tryDetect(cwd); app.tsx calls detectAll after detect
DetectAllCurrent ==
  /\ dPc = "done" /\ aPc = "current"
  /\ allAssign(tryDetect(allState, "current", rCwd), "siblings")

\* detectAll, 2: the siblings of cwd, cwd among them
DetectAllSiblings ==
  /\ aPc = "siblings"
  /\ allAssign(IF readdir(dirname(rCwd)).threw THEN allState
               ELSE scanSiblings(allState, readdir(dirname(rCwd)).entries), "children")

\* detectAll, 3: await scanChildren(cwd, 1); return projects
DetectAllChildren ==
  /\ aPc = "children"
  /\ allAssign(scanChildren(allState, rCwd, 1), "done")

RegNext == DetectTry \/ DetectNone \/ DetectAllCurrent \/ DetectAllSiblings
           \/ DetectAllChildren

-----------------------------------------------------------------------------
(* The command history (loadHistory, saveHistory, addToHistory,            *)
(* clearHistory, deleteFromHistory). An entry's timestamp is left out:     *)
(* nothing reads it.                                                       *)

\* const MAX_HISTORY_PER_PROJECT = 10
MAX_HISTORY_PER_PROJECT == 10

\* the project paths that are keys of the history file
HistProjects == {"/work/api", "/work/web"}

\* the full command strings of the model, one more than a project's history holds
HistCommands ==
  << "pytest -k a", "pytest -k b", "pytest -k c", "pytest -k d", "pytest -k e",
     "pytest -k f", "pytest -k g", "pytest -k h", "pytest -k i", "pytest -k j",
     "pytest -k k" >>

\* the script name a command is run under
HistScript == "test"

\* a HistoryEntry
HistoryEntry(script, command, count) ==
  [script |-> script, command |-> command, count |-> count]

\* history[projectPath] when the key is missing
NoProjectHistory == [exists |-> FALSE, history |-> <<>>]

\* projectHistory.findIndex((entry) => entry.command === command), 0 for -1
findIndexOfCommand(projectHistory, command) ==
  LET hits == { i \in 1..Len(projectHistory) : projectHistory[i].command = command }
  IN  IF hits = {} THEN 0 ELSE CHOOSE i \in hits : \A j \in hits : i <= j

\* projectHistory.splice(index, 1)
splice(projectHistory, index) ==
  SubSeq(projectHistory, 1, index - 1) \o SubSeq(projectHistory, index + 1, Len(projectHistory))

\* addToHistory with the new entry pushed at the front and nothing popped
addToHistoryNoLimit(history, projectPath, scriptName, command) ==
  LET projectHistory == history[projectPath].history
      existingIndex == findIndexOfCommand(projectHistory, command)
  IN  [history EXCEPT ![projectPath] =
         [exists |-> TRUE,
          history |-> IF existingIndex > 0
                      THEN << [projectHistory[existingIndex] EXCEPT !.count = @ + 1] >>
                           \o splice(projectHistory, existingIndex)
                      ELSE << HistoryEntry(scriptName, command, 1) >> \o projectHistory]]

\* addToHistory, between loadHistory and saveHistory: the history it saves
addToHistory(history, projectPath, scriptName, command) ==
  LET projectHistory == history[projectPath].history
      existingIndex == findIndexOfCommand(projectHistory, command)
      unshifted == << HistoryEntry(scriptName, command, 1) >> \o projectHistory
  IN  [history EXCEPT ![projectPath] =
         [exists |-> TRUE,
          history |-> IF existingIndex > 0
                      THEN << [projectHistory[existingIndex] EXCEPT !.count = @ + 1] >>
                           \o splice(projectHistory, existingIndex)
                      ELSE IF Len(unshifted) > MAX_HISTORY_PER_PROJECT
                      THEN SubSeq(unshifted, 1, Len(unshifted) - 1)
                      ELSE unshifted]]

\* clearHistory: delete history[projectPath]
clearHistory(history, projectPath) ==
  [history EXCEPT ![projectPath] = NoProjectHistory]

\* deleteFromHistory saves only when the project has the command
deleteSaves(history, projectPath, command) ==
  /\ history[projectPath].exists
  /\ findIndexOfCommand(history[projectPath].history, command) > 0

\* deleteFromHistory, between loadHistory and saveHistory: the history it saves
deleteFromHistory(history, projectPath, command) ==
  [history EXCEPT ![projectPath].history =
     splice(@, findIndexOfCommand(@, command))]

\* the commands a project's history holds
CommandsIn(history, projectPath) ==
  { history[projectPath].history[i].command : i \in 1..Len(history[projectPath].history) }

\* the history after the first k commands were added, the first of them last
Filled(k) == [ i \in 1..k |-> HistoryEntry(HistScript, HistCommands[i], 1) ]

\* the count of calls per command, with the commands a history lacks at zero
countAdds(counted, history) ==
  [ p \in HistProjects |->
      [ c \in Range(HistCommands) |->
          IF c \in CommandsIn(history, p) THEN counted[p][c] ELSE 0 ] ]

HistIdle ==
  /\ store = [ p \in HistProjects |-> NoProjectHistory ]
  /\ adds = [ p \in HistProjects |-> [ c \in Range(HistCommands) |-> 0 ] ]
  /\ lastAdded = [ p \in HistProjects |-> "" ]
  /\ hCalls = 0

\* the store is empty, or one project has had one, all but one or all of the
\* commands its history can hold added to it
HistInit ==
  /\ \E k \in {0, 1, MAX_HISTORY_PER_PROJECT - 1, MAX_HISTORY_PER_PROJECT} :
        /\ store = [ p \in HistProjects |->
                       IF p = "/work/api" /\ k > 0
                       THEN [exists |-> TRUE, history |-> Filled(k)]
                       ELSE NoProjectHistory ]
        /\ lastAdded = [ p \in HistProjects |->
                           IF p = "/work/api" /\ k > 0 THEN HistCommands[1] ELSE "" ]
  /\ adds = countAdds([ p \in HistProjects |-> [ c \in Range(HistCommands) |-> 1 ] ], store)
  /\ hCalls = 0

\* await addToHistory(projectPath, scriptName, command)
AddToHistory ==
  /\ hCalls < MaxCalls
  /\ \E p \in HistProjects, c \in Range(HistCommands) :
        /\ store' = addToHistory(store, p, HistScript, c)
        /\ adds' = countAdds([adds EXCEPT ![p][c] = @ + 1], store')
        /\ lastAdded' = [lastAdded EXCEPT ![p] = c]
  /\ hCalls' = hCalls + 1
  /\ UNCHANGED exceptHistory

\* await deleteFromHistory(projectPath, command)
DeleteFromHistory ==
  /\ hCalls < MaxCalls
  /\ \E p \in HistProjects, c \in Range(HistCommands) :
        /\ store' = IF deleteSaves(store, p, c) THEN deleteFromHistory(store, p, c) ELSE store
        /\ adds' = countAdds(adds, store')
  /\ hCalls' = hCalls + 1
  /\ UNCHANGED <<lastAdded, exceptHistory>>

\* await clearHistory(projectPath)
ClearHistory ==
  /\ hCalls < MaxCalls
  /\ \E p \in HistProjects :
        /\ store' = clearHistory(store, p)
        /\ adds' = countAdds(adds, store')
  /\ hCalls' = hCalls + 1
  /\ UNCHANGED <<lastAdded, exceptHistory>>

HistNext == AddToHistory \/ DeleteFromHistory \/ ClearHistory

-----------------------------------------------------------------------------
(* ScriptList: the list of history entries and scripts, its search filter   *)
(* and its key handler. A text is the sequence of its characters. A key     *)
(* press is one step: the handler, the render and the effect that follows.  *)
(* The keys that leave the list for good (Enter outside the search, e, p,   *)
(* q) are not part of the model.                                            *)

\* the projectPath prop
UIProject == "/work/api"

\* the history entries of the project when the list opens
UIEntries ==
  << HistoryEntry(<<"t">>, <<"t", "a">>, 1), HistoryEntry(<<"t">>, <<"t", "b">>, 1) >>

\* the packageInfo.scripts a project may have: none, or one script x
UIScriptLists == { <<>>, << Script(<<"x">>, <<"x", "a">>, <<>>) >> }

\* the characters typed while searching
TypedChars == {"A", "x", "z"}

\* Math.max, Math.min
mathMax(a, b) == IF a >= b THEN a ELSE b
mathMin(a, b) == IF a <= b THEN a ELSE b

\* String.prototype.toLowerCase, a character at a time
toLowerCase(text) == [ i \in 1..Len(text) |-> IF text[i] = "A" THEN "a" ELSE text[i] ]

\* text.includes(part)
includesText(text, part) ==
  \E i \in 0..(Len(text) - Len(part)) : SubSeq(text, i + 1, i + Len(part)) = part

\* getHistory: the entries of the project as Script objects
getHistory(history, projectPath) ==
  [ i \in 1..Len(history[projectPath].history) |->
      Script(history[projectPath].history[i].script,
             history[projectPath].history[i].command,
             history[projectPath].history[i].command) ]

\* the filter of allScripts: name, command or description holds the query
matchesQuery(script, query) ==
  \/ includesText(toLowerCase(script.name), toLowerCase(query))
  \/ includesText(toLowerCase(script.command), toLowerCase(query))
  \/ includesText(toLowerCase(script.description), toLowerCase(query))

\* allScripts for that history state and query
allScriptsOf(history, query) ==
  IF query = <<>> THEN history \o uScripts
  ELSE SelectSeq(history \o uScripts, LAMBDA script : matchesQuery(script, query))

\* allScripts of the current render
allScripts == allScriptsOf(uHistory, searchQuery)

\* the effect on [allScripts.length, selectedIndex]: the index after it ran for
\* the list rendered from that history and query
afterEffect(index, history, query) ==
  IF index >= Len(allScriptsOf(history, query))
  THEN mathMax(0, Len(allScriptsOf(history, query)) - 1)
  ELSE index

\* a deleteFromHistory call: not yet loaded ("start"), between loadHistory and
\* saveHistory ("loaded", with the history it loaded), or returned ("done")
Op(command, pc, local) == [command |-> command, pc |-> pc, local |-> local]

UIIdle ==
  /\ uHistory = <<>> /\ uScripts = <<>> /\ selectedIndex = 0 /\ isSearching = FALSE
  /\ searchQuery = <<>> /\ screen = "idle" /\ ops = <<>>

\* the list opens on a project with none, one or two history entries
UIInit ==
  /\ \E n \in 0..Len(UIEntries) :
        store = [ p \in HistProjects |->
                    IF p = UIProject /\ n > 0
                    THEN [exists |-> TRUE, history |-> SubSeq(UIEntries, 1, n)]
                    ELSE NoProjectHistory ]
  /\ uHistory = getHistory(store, UIProject)
  /\ uScripts \in UIScriptLists
  /\ selectedIndex = 0
  /\ isSearching = FALSE
  /\ searchQuery = <<>>
  /\ screen = "list"
  /\ ops = <<>>
  /\ adds = [ p \in HistProjects |-> [ c \in Range(HistCommands) |-> 0 ] ]
  /\ lastAdded = [ p \in HistProjects |-> "" ]
  /\ hCalls = 0

\* up arrow, in both modes, and k outside the search
KeyUp ==
  /\ screen = "list"
  /\ selectedIndex' = afterEffect(mathMax(0, selectedIndex - 1), uHistory, searchQuery)
  /\ UNCHANGED <<uHistory, uScripts, isSearching, searchQuery, screen, ops, store, exceptUI>>

\* down arrow, in both modes, and j outside the search
KeyDown ==
  /\ screen = "list"
  /\ selectedIndex' = afterEffect(mathMin(Len(allScripts) - 1, selectedIndex + 1),
                                  uHistory, searchQuery)
  /\ UNCHANGED <<uHistory, uScripts, isSearching, searchQuery, screen, ops, store, exceptUI>>

\* / or s: start the search
KeySearch ==
  /\ screen = "list" /\ ~isSearching
  /\ isSearching' = TRUE
  /\ searchQuery' = <<>>
  /\ selectedIndex' = afterEffect(selectedIndex, uHistory, <<>>)
  /\ UNCHANGED <<uHistory, uScripts, screen, ops, store, exceptUI>>

\* a character typed while searching
KeyChar ==
  /\ screen = "list" /\ isSearching
  /\ Len(searchQuery) < MaxQuery
  /\ \E input \in TypedChars :
        /\ searchQuery' = Append(searchQuery, input)
        /\ selectedIndex' = afterEffect(selectedIndex, uHistory, searchQuery')
  /\ UNCHANGED <<uHistory, uScripts, isSearching, screen, ops, store, exceptUI>>

\* backspace or delete while searching: prev.slice(0, -1)
KeyBackspace ==
  /\ screen = "list" /\ isSearching
  /\ searchQuery' = SubSeq(searchQuery, 1, Len(searchQuery) - 1)
  /\ selectedIndex' = afterEffect(selectedIndex, uHistory, searchQuery')
  /\ UNCHANGED <<uHistory, uScripts, isSearching, screen, ops, store, exceptUI>>

\* Enter while searching: leave the search, keep the filter
KeyReturn ==
  /\ screen = "list" /\ isSearching
  /\ isSearching' = FALSE
  /\ UNCHANGED <<uHistory, uScripts, selectedIndex, searchQuery, screen, ops, store, exceptUI>>

\* Escape while searching: clear the search
KeyEscape ==
  /\ screen = "list" /\ isSearching
  /\ isSearching' = FALSE
  /\ searchQuery' = <<>>
  /\ selectedIndex' = afterEffect(0, uHistory, <<>>)
  /\ UNCHANGED <<uHistory, uScripts, screen, ops, store, exceptUI>>

\* c: clear the filter when there is one, else open the custom command input
KeyClear ==
  /\ screen = "list" /\ ~isSearching
  /\ IF searchQuery # <<>>
     THEN /\ searchQuery' = <<>>
          /\ selectedIndex' = afterEffect(0, uHistory, <<>>)
          /\ UNCHANGED screen
     ELSE /\ screen' = "custom"
          /\ UNCHANGED <<searchQuery, selectedIndex>>
  /\ UNCHANGED <<uHistory, uScripts, isSearching, ops, store, exceptUI>>

\* a: open the argument input
KeyArguments ==
  /\ screen = "list" /\ ~isSearching
  /\ screen' = "arguments"
  /\ UNCHANGED <<uHistory, uScripts, selectedIndex, isSearching, searchQuery, ops, store,
                 exceptUI>>

\* handleArgumentCancel, handleCustomCommandCancel
Cancel ==
  /\ screen \in {"arguments", "custom"}
  /\ screen' = "list"
  /\ UNCHANGED <<uHistory, uScripts, selectedIndex, isSearching, searchQuery, ops, store,
                 exceptUI>>

\* d or Delete outside the search: delete from history
KeyDelete ==
  /\ screen = "list" /\ ~isSearching
  /\ selectedIndex >= 0 /\ selectedIndex < Len(uHistory)
  /\ LET scriptToDelete == uHistory[selectedIndex + 1]
         newHistory == splice(uHistory, selectedIndex + 1)
         adjusted == IF selectedIndex >= Len(newHistory) + Len(uScripts)
                     THEN mathMax(0, selectedIndex - 1) ELSE selectedIndex
     IN  /\ ops' = Append(ops, Op(scriptToDelete.command, "start", store))
         /\ uHistory' = newHistory
         /\ selectedIndex' = afterEffect(adjusted, newHistory, searchQuery)
  /\ UNCHANGED <<uScripts, isSearching, searchQuery, screen, store, exceptUI>>

\* a deleteFromHistory call gets the history file from loadHistory; it returns
\* when the project has no such command
DeleteLoads ==
  \E k \in 1..Len(ops) :
     /\ ops[k].pc = "start"
     /\ ops' = [ops EXCEPT ![k] = Op(@.command,
                                     IF deleteSaves(store, UIProject, @.command)
                                     THEN "loaded" ELSE "done",
                                     store)]
     /\ UNCHANGED <<uHistory, uScripts, selectedIndex, isSearching, searchQuery, screen,
                    store, exceptUI>>

\* a deleteFromHistory call writes the history it loaded, less its command
DeleteSaves ==
  \E k \in 1..Len(ops) :
     /\ ops[k].pc = "loaded"
     /\ store' = deleteFromHistory(ops[k].local, UIProject, ops[k].command)
     /\ ops' = [ops EXCEPT ![k].pc = "done"]
     /\ UNCHANGED <<uHistory, uScripts, selectedIndex, isSearching, searchQuery, screen,
                    exceptUI>>

UINext ==
  \/ KeyUp \/ KeyDown \/ KeySearch \/ KeyChar \/ KeyBackspace \/ KeyReturn \/ KeyEscape
  \/ KeyClear \/ KeyArguments \/ Cancel \/ KeyDelete \/ DeleteLoads \/ DeleteSaves

-----------------------------------------------------------------------------
(* The Python tool registry (core/python/tool-registry.ts and the tools it  *)
(* registers) beside detectPythonTools of core/python/tool-detector.ts.     *)

\* the package names of the registered tools
ToolPackages ==
  {"ruff", "pytest", "black", "mypy", "pyright", "isort", "flake8", "pylint", "coverage",
   "pre-commit", "bandit", "sphinx"}

\* the dependency names of the model: every tool's package and one package
\* that is no tool
DependencyNames == ToolPackages \cup {"requests"}

\* a PythonTool, its scripts(projectRoot) already called
PythonTool(name, packageName, scripts) ==
  [name |-> name, packageName |-> packageName, scripts |-> scripts]

ruffTool(projectRoot) ==
  PythonTool("ruff", "ruff", <<
    Script("ruff-check", <<"ruff", "check">>, "Run ruff linter"),
    Script("ruff-check-fix", <<"ruff", "check", "--fix">>,
           "Run ruff linter and auto-fix issues"),
    Script("ruff-format", <<"ruff", "format">>, "Format code with ruff"),
    Script("ruff-format-check", <<"ruff", "format", "--check">>,
           "Check if code is formatted")>>)

pytestTool(projectRoot) ==
  PythonTool("pytest", "pytest", <<
    Script("test", <<"pytest">>, "Run all tests"),
    Script("test-verbose", <<"pytest", "-v">>, "Run tests with verbose output"),
    Script("test-cov", <<"pytest", "--cov">>, "Run tests with coverage report")>>)

blackTool(projectRoot) ==
  PythonTool("black", "black", <<
    Script("black", <<"black", ".">>, "Format code with black"),
    Script("black-check", <<"black", "--check", ".">>, "Check if code is formatted")>>)

mypyTool(projectRoot) ==
  PythonTool("mypy", "mypy", <<Script("mypy", <<"mypy", ".">>, "Run mypy type checker")>>)

pyrightTool(projectRoot) ==
  PythonTool("pyright", "pyright",
             <<Script("pyright", <<"pyright">>, "Run pyright type checker")>>)

isortTool(projectRoot) ==
  PythonTool("isort", "isort", <<
    Script("isort", <<"isort", ".">>, "Sort imports with isort"),
    Script("isort-check", <<"isort", "--check-only", ".">>, "Check import sorting")>>)

flake8Tool(projectRoot) ==
  PythonTool("flake8", "flake8", <<Script("flake8", <<"flake8">>, "Run flake8 linter")>>)

pylintTool(projectRoot) ==
  PythonTool("pylint", "pylint",
             <<Script("pylint", <<"pylint", "src">>, "Run pylint linter")>>)

coverageTool(projectRoot) ==
  PythonTool("coverage", "coverage", <<
    Script("coverage-run", <<"coverage", "run", "-m", "pytest">>, "Run tests with coverage"),
    Script("coverage-report", <<"coverage", "report">>, "Show coverage report"),
    Script("coverage-html", <<"coverage", "html">>, "Generate HTML coverage report")>>)

preCommitTool(projectRoot) ==
  PythonTool("pre-commit", "pre-commit", <<
    Script("pre-commit-install", <<"pre-commit", "install">>, "Install pre-commit hooks"),
    Script("pre-commit-run", <<"pre-commit", "run", "--all-files">>,
           "Run pre-commit on all files")>>)

banditTool(projectRoot) ==
  PythonTool("bandit", "bandit",
             <<Script("bandit", <<"bandit", "-r", ".">>, "Run security checks with bandit")>>)

\* sphinxTool with the docs directory taken for granted
sphinxToolDocsAssumed(projectRoot) ==
  PythonTool("sphinx", "sphinx",
             <<Script("docs-build", <<"sphinx-build", "-b", "html", "docs", "docs/_build">>,
                      "Build documentation with Sphinx")>>)

\* sphinxTool: the docs directory when the project has one, else the project
sphinxTool(projectRoot) ==
  LET docsDir == IF fileExists(join(projectRoot, "docs")) THEN "docs" ELSE "."
      docsOut == IF fileExists(join(projectRoot, "docs")) THEN "docs/_build" ELSE "./_build"
  IN  PythonTool("sphinx", "sphinx",
                 <<Script("docs-build", <<"sphinx-build", "-b", "html", docsDir, docsOut>>,
                          "Build documentation with Sphinx")>>)

\* this.tools after the constructor: the tools in the order they were registered
registeredTools(projectRoot) ==
  << ruffTool(projectRoot), pytestTool(projectRoot), blackTool(projectRoot),
     mypyTool(projectRoot), pyrightTool(projectRoot), isortTool(projectRoot),
     flake8Tool(projectRoot), pylintTool(projectRoot), coverageTool(projectRoot),
     preCommitTool(projectRoot), banditTool(projectRoot), sphinxTool(projectRoot) >>

\* the loop of PythonToolRegistry.detect from tool i on
RECURSIVE detectFrom(_, _, _)
detectFrom(tools, dependencies, i) ==
  IF i > Len(tools) THEN <<>>
  ELSE (IF tools[i].packageName \in dependencies THEN tools[i].scripts ELSE <<>>)
       \o detectFrom(tools, dependencies, i + 1)

\* pythonToolRegistry.detect(dependencies, projectRoot)
pythonToolRegistryDetect(dependencies, projectRoot) ==
  detectFrom(registeredTools(projectRoot), dependencies, 1)

\* the two functions that can be called
ToolFunctions == {"pythonToolRegistry.detect", "detectPythonTools"}

ToolIdle ==
  tDeps = {} /\ tRoot = NoDir /\ tRegistry = <<>> /\ tDetector = <<>> /\ tPc = {}

\* a project root with or without a docs entry, whose parent has one or not,
\* and a set of installed packages; neither function has been called
ToolInit ==
  /\ files \in SUBSET {join(ProjectSrc, "docs"), join(dirname(ProjectSrc), "docs")}
  /\ tDeps \in SUBSET DependencyNames
  /\ tRoot = ProjectSrc
  /\ tRegistry = <<>> /\ tDetector = <<>> /\ tPc = {}

\* await pythonToolRegistry.detect(dependencies, projectRoot)
ToolRegistryDetect ==
  /\ "pythonToolRegistry.detect" \notin tPc
  /\ tRegistry' = pythonToolRegistryDetect(tDeps, tRoot)
  /\ tPc' = tPc \cup {"pythonToolRegistry.detect"}
  /\ UNCHANGED <<tDeps, tRoot, tDetector, exceptTools>>

\* await detectPythonTools(dependencies, projectRoot)
DetectPythonTools ==
  /\ "detectPythonTools" \notin tPc
  /\ tDetector' = detectPythonTools(tDeps, tRoot)
  /\ tPc' = tPc \cup {"detectPythonTools"}
  /\ UNCHANGED <<tDeps, tRoot, tRegistry, exceptTools>>

ToolNext == ToolRegistryDetect \/ DetectPythonTools

-----------------------------------------------------------------------------
(* The specifications: each runs one part of the program and leaves the    *)
(* state of the others idle.                                               *)

\* nothing on disk has content the parsers look at
NoContent ==
  /\ malformed = {} /\ manifest = EmptyManifest /\ wamiConfig = EmptyConfig
  /\ packageJson = EmptyPackageJson /\ workspaceDirs = {} /\ unreadable = {}
  /\ NoGoContent

InitProbe ==
  /\ ProbeInit /\ NoContent
  /\ ConfigIdle /\ PyIdle /\ RegIdle /\ NodeIdle /\ GoIdle /\ BuildIdle /\ HistIdle /\ UIIdle
  /\ ToolIdle

SpecProbe == InitProbe /\ [][ProbeNext]_vars

\* the loops are the only code running, so a step that can be taken is taken
FairProbe == SpecProbe /\ WF_vars(ProbeNext)

InitConfig ==
  /\ ConfigInit /\ files = {} /\ NoContent
  /\ ProbeIdle /\ PyIdle /\ RegIdle /\ NodeIdle /\ GoIdle /\ BuildIdle /\ HistIdle /\ UIIdle
  /\ ToolIdle

SpecConfig == InitConfig /\ [][ConfigNext]_vars

InitPython ==
  /\ PyInit /\ packageJson = EmptyPackageJson /\ workspaceDirs = {} /\ unreadable = {}
  /\ NoGoContent
  /\ ProbeIdle /\ ConfigIdle /\ RegIdle /\ NodeIdle /\ GoIdle /\ BuildIdle /\ HistIdle /\ UIIdle
  /\ ToolIdle

SpecPython == InitPython /\ [][PyNext]_vars

InitRegistry ==
  /\ RegInit
  /\ ProbeIdle /\ ConfigIdle /\ PyIdle /\ NodeIdle /\ GoIdle /\ BuildIdle /\ HistIdle /\ UIIdle
  /\ ToolIdle

SpecRegistry == InitRegistry /\ [][RegNext]_vars

InitNode ==
  /\ NodeInit
  /\ ProbeIdle /\ ConfigIdle /\ PyIdle /\ RegIdle /\ GoIdle /\ BuildIdle /\ HistIdle /\ UIIdle
  /\ ToolIdle

SpecNode == InitNode /\ [][NodeNext]_vars

InitBuild ==
  /\ BuildInit /\ files = {} /\ NoContent
  /\ ProbeIdle /\ ConfigIdle /\ PyIdle /\ RegIdle /\ NodeIdle /\ GoIdle /\ HistIdle /\ UIIdle
  /\ ToolIdle

SpecBuild == InitBuild /\ [][BuildNext]_vars

InitDetect ==
  /\ PyChainInit /\ packageJson = EmptyPackageJson /\ workspaceDirs = {} /\ unreadable = {}
  /\ NoGoContent
  /\ ProbeIdle /\ ConfigIdle /\ RegIdle /\ NodeIdle /\ GoIdle /\ BuildIdle /\ HistIdle /\ UIIdle
  /\ ToolIdle

SpecDetect == InitDetect /\ [][PyNext]_vars

\* one of the two detectors that infer tool commands runs on a project
InitParse ==
  \/ /\ PyInit
     /\ ProbeIdle /\ ConfigIdle /\ RegIdle /\ NodeIdle /\ GoIdle /\ BuildIdle /\ HistIdle /\ UIIdle
     /\ ToolIdle
     /\ packageJson = EmptyPackageJson /\ workspaceDirs = {} /\ unreadable = {}
     /\ NoGoContent
  \/ /\ NodeInit
     /\ ProbeIdle /\ ConfigIdle /\ PyIdle /\ RegIdle /\ GoIdle /\ BuildIdle /\ HistIdle /\ UIIdle
     /\ ToolIdle

ParseNext == PyNext \/ NodeNext

SpecParse == InitParse /\ [][ParseNext]_vars

InitHistory ==
  /\ HistInit /\ files = {} /\ NoContent
  /\ ProbeIdle /\ ConfigIdle /\ PyIdle /\ RegIdle /\ NodeIdle /\ GoIdle /\ BuildIdle
  /\ UIIdle /\ ToolIdle

SpecHistory == InitHistory /\ [][HistNext]_vars

InitUI ==
  /\ UIInit /\ files = {} /\ NoContent
  /\ ProbeIdle /\ ConfigIdle /\ PyIdle /\ RegIdle /\ NodeIdle /\ GoIdle /\ BuildIdle
  /\ ToolIdle

SpecUI == InitUI /\ [][UINext]_vars

InitGo ==
  /\ GoInit
  /\ ProbeIdle /\ ConfigIdle /\ PyIdle /\ RegIdle /\ NodeIdle /\ BuildIdle /\ HistIdle /\ UIIdle
  /\ ToolIdle

SpecGo == InitGo /\ [][GoNext]_vars

InitTools ==
  /\ ToolInit /\ NoContent
  /\ ProbeIdle /\ ConfigIdle /\ PyIdle /\ RegIdle /\ NodeIdle /\ GoIdle /\ BuildIdle
  /\ HistIdle /\ UIIdle

SpecTools == InitTools /\ [][ToolNext]_vars

Spec == SpecRegistry

-----------------------------------------------------------------------------
(* The user-override layer: claims.                                        *)

\* the names of the commands of a list
NamesOf(scripts) == { scripts[i].name : i \in 1..Len(scripts) }

\* the names the override file gives a command for
OverrideNames == { cConfig.commands[k].name : k \in 1..Len(cConfig.commands) }

\* the positions of a list that hold a command of that name
Positions(scripts, name) == { i \in 1..Len(scripts) : scripts[i].name = name }

\* what the claim of ignore-then-override says of one result list
IgnoreThenOverride(out) ==
  /\ \A n \in Range(cConfig.ignore) \ OverrideNames : Positions(out, n) = {}
  /\ \A k \in 1..Len(cConfig.commands) :
       LET e == cConfig.commands[k]
       IN  includes(cConfig.ignore, e.name) =>
             /\ Cardinality(Positions(out, e.name)) = 1
             /\ \A i \in Positions(out, e.name) : out[i].command = e.value.command

\* C4: applyConfig first removes every command whose name is in config.ignore
\* and only then applies config.commands, so a name in both is present in the
\* final list, once, with the override's command string; in PythonDetector and
\* in GoDetector alike.
C4_IgnoreThenOverride ==
  cPc = "applied" => IgnoreThenOverride(cOut) /\ IgnoreThenOverride(gOut)

\* C4's case: scenario 3 of the spec, a list with test, ignore [test] and an
\* override of test
C4_Witness ==
  /\ cPc = "applied"
  /\ "test" \in NamesOf(cArg)
  /\ includes(cConfig.ignore, "test")
  /\ \E k \in 1..Len(cConfig.commands) :
       /\ cConfig.commands[k].name = "test"
       /\ cConfig.commands[k].value.command = <<"pytest", "-x">>
  /\ \E i \in 1..Len(cOut) : cOut[i].name = "test" /\ cOut[i].command = <<"pytest", "-x">>

\* the commands that survive the ignore list, written position by position
Survivors ==
  SelectSeq(cArg, LAMBDA s : \A i \in 1..Len(cConfig.ignore) : cConfig.ignore[i] # s.name)

\* the overrides before entry k whose name no survivor carries
NewBefore(k) ==
  { j \in 1..(k - 1) : Positions(Survivors, cConfig.commands[j].name) = {} }

\* the least element of a non-empty set of positions
Least(S) == CHOOSE i \in S : \A j \in S : i <= j

\* C5: an override whose name survives the ignore filter takes that command's
\* index, an override of a new name is appended at the end, every other entry
\* keeps its index and content, and the list passed in is not modified.
C5_ReplaceInPlaceOrAppend ==
  cPc = "applied" =>
    LET F == Survivors
        ov == cConfig.commands
        replaced == { Least(Positions(F, ov[k].name)) :
                        k \in { j \in 1..Len(ov) : Positions(F, ov[j].name) # {} } }
    IN  /\ Len(cOut) = Len(F) + Cardinality(NewBefore(Len(ov) + 1))
        /\ \A k \in 1..Len(ov) :
             IF Positions(F, ov[k].name) # {}
             THEN cOut[Least(Positions(F, ov[k].name))] = overrideScript(ov[k])
             ELSE cOut[Len(F) + Cardinality(NewBefore(k)) + 1] = overrideScript(ov[k])
        /\ \A i \in (1..Len(F)) \ replaced : cOut[i] = F[i]
        /\ cScripts = cArg

\* C5's case: one override replaced a surviving command that is not the last of
\* the list, another was appended, and a third command was left alone
C5_Witness ==
  /\ cPc = "applied"
  /\ Len(Survivors) >= 2
  /\ \E k \in 1..Len(cConfig.commands) :
       /\ Positions(Survivors, cConfig.commands[k].name) # {}
       /\ Least(Positions(Survivors, cConfig.commands[k].name)) = 1
  /\ \E k \in 1..Len(cConfig.commands) :
       Positions(Survivors, cConfig.commands[k].name) = {}
  /\ cOut[2] = Survivors[2]
  /\ Len(cOut) = Len(Survivors) + 1

\* C6: for an override file with an ignore list and no commands, applyConfig is
\* idempotent, a name in ignore that no command carries leaves the list as it
\* was, and a name listed twice gives what listing it once gives.
C6_IgnoreOnlyIdempotent ==
  (cPc = "applied" /\ cConfig.commands = <<>>) =>
     /\ applyConfig(cOut, cConfig) = cOut
     /\ (Range(cConfig.ignore) \cap NamesOf(cArg) = {}) => cOut = cArg
     /\ \A k \in 1..Len(cConfig.ignore) :
          applyConfig(cArg, [cConfig EXCEPT !.ignore = Append(@, @[k])]) = cOut
     /\ \A k \in 1..Len(cConfig.ignore) :
          (\E j \in 1..Len(cConfig.ignore) : j # k /\ cConfig.ignore[j] = cConfig.ignore[k])
            => applyConfig(cArg, [cConfig EXCEPT !.ignore =
                 SubSeq(@, 1, k - 1) \o SubSeq(@, k + 1, Len(@))]) = cOut

\* C6's case: the ignore list names twice a command the list carries twice, and
\* once more a name no command carries is not needed: the list shrank
C6_Witness ==
  /\ cPc = "applied" /\ cConfig.commands = <<>>
  /\ Len(cConfig.ignore) = 2 /\ cConfig.ignore[1] = cConfig.ignore[2]
  /\ Cardinality(Positions(cArg, cConfig.ignore[1])) = 2
  /\ cOut = <<>>

-----------------------------------------------------------------------------
(* PythonDetector.parse: claims.                                           *)

\* C7: the final command list a detector's parse returns holds no two commands
\* of the same name, also when a manifest-declared script has the name of one of
\* the package-manager commands parse always appends.
C7_UniqueNames ==
  (pyPc = "done" /\ pyRoot # NoDir /\ ~pyInfo.threw) =>
     \A i, j \in 1..Len(pyInfo.scripts) :
        pyInfo.scripts[i].name = pyInfo.scripts[j].name => i = j

\* C8: the path field of the PackageInfo a parse returns names a marker file
\* that exists in the project root, also for a project whose only marker is
\* Pipfile or requirements.txt.
C8_PathExists ==
  (pyPc = "done" /\ pyRoot # NoDir /\ ~pyInfo.threw) =>
     /\ pyInfo.path[1] = pyRoot
     /\ pyInfo.path[2] \in {"pyproject.toml", "Pipfile", "requirements.txt"}
     /\ fileExists(pyInfo.path)

-----------------------------------------------------------------------------
(* DetectorRegistry: claims.                                               *)

\* the detect calls of the log, in order
DetectEvents == SelectSeq(dLog, LAMBDA e : e[2] = "detect")

\* detector i finds a root from cwd and parses it
Matches(i) ==
  LET r == detectorDetect(detectors[i], rCwd)
  IN  ~r.threw /\ r.root # NoDir /\ ~detectorParse(detectors[i], r.root).threw

\* detector i throws, in detect or in parse
Throws(i) ==
  LET r == detectorDetect(detectors[i], rCwd)
  IN  r.threw \/ (r.root # NoDir /\ detectorParse(detectors[i], r.root).threw)

Matching == { i \in 1..Len(detectors) : Matches(i) }

\* the j-th detect call is on the j-th registered detector, and a parse call
\* follows the detect call of the same detector
LogInOrder ==
  /\ Len(DetectEvents) <= Len(detectors)
  /\ \A j \in 1..Len(DetectEvents) : DetectEvents[j][1] = detectors[j]
  /\ \A k \in 1..Len(dLog) :
        dLog[k][2] = "parse" => k > 1 /\ dLog[k - 1] = <<dLog[k][1], "detect">>

\* the result is that of the first matching detector, whose parse is the last call
FirstWins ==
  (dPc = "done" /\ Matching # {}) =>
     LET m == Least(Matching)
         r == detectorDetect(detectors[m], rCwd)
     IN  /\ dResult = Found(detectorParse(detectors[m], r.root), detectors[m])
         /\ Len(DetectEvents) = m
         /\ dLog[Len(dLog)] = <<detectors[m], "parse">>

\* C1: detect consults the registered detectors one after another in
\* registration order (Python, then Node.js) and returns the result of the first
\* whose detect yields a root and whose parse succeeds; once that result is
\* produced no later detector's detect or parse is invoked.
C1_FirstInOrder ==
  /\ [](LogInOrder /\ FirstWins /\ SubSeq(detectors, 1, 2) = <<"Python", "Node.js">>)
  /\ [][dPc = "done" => dLog' = dLog /\ dResult' = dResult]_vars

\* C1's case: Python found nothing, Node.js matched, and a third registered
\* detector that would have matched was never called
C1_Witness ==
  /\ dPc = "done" /\ custom = "ok"
  /\ dResult.found /\ dResult.detector = "Node.js"
  /\ dLog = << <<"Python", "detect">>, <<"Node.js", "detect">>, <<"Node.js", "parse">> >>

\* C2: detect never throws: for every combination of detectors that throw in
\* detect or in parse, the throwing detector is skipped and the next one is
\* tried, and when no detector produces a result the call returns found=false
\* with the fixed message and no packageInfo or detector.
C2_NeverThrows ==
  /\ dPc \in {"loop", "done"}
  /\ dPc = "loop" => dIdx \in 1..(Len(detectors) + 1) /\ dResult = Pending
  /\ \A i \in 1..Len(detectors) :
        (Throws(i) /\ <<detectors[i], "detect">> \in Range(dLog)) =>
           /\ dPc = "loop" => dIdx > i
           /\ (dPc = "done" /\ i < Len(detectors)) =>
                 <<detectors[i + 1], "detect">> \in Range(dLog)
  /\ (dPc = "done" /\ Matching = {}) =>
        /\ dResult.found = FALSE
        /\ dResult.error =
             "No supported project found in current directory or parent directories"
        /\ DOMAIN dResult = {"found", "error"}

\* C2's case: the parse of Python threw, Node.js was tried after it, the detect
\* of the last detector threw, and the call returned not-found
C2_Witness ==
  /\ dPc = "done" /\ dResult = NotFound
  /\ custom = "detectThrows"
  /\ <<"Python", "parse">> \in Range(dLog)
  /\ <<"Node.js", "detect">> \in Range(dLog)
  /\ <<"Custom", "detect">> \in Range(dLog)

\* the resolved project root of an entry of the list detectAll returns
RootOf(result) == result.packageInfo.path[1]

\* the paths a phase of detectAll handed to tryDetect from which some detector
\* resolves the root R
ReachedIn(phase, R) ==
  { e \in Range(aLog) :
      /\ e[1] = phase
      /\ \E i \in 1..Len(detectors) : detectorDetect(detectors[i], e[2]).root = R }

\* C3: the list detectAll returns (and builds) holds no two entries with the same
\* resolved project root, whichever phase reached the root and whichever
\* detector matched it.
C3_NoDuplicateRoots ==
  \A i, j \in 1..Len(projects) :
     RootOf(projects[i]) = RootOf(projects[j]) => i = j

\* C3's case: detectAll returned two projects, and the root of one of them was
\* reached from a sibling and again from a child of cwd
C3_Witness ==
  /\ aPc = "done" /\ Len(projects) >= 2
  /\ \E k \in 1..Len(projects) :
        /\ ReachedIn("siblings", RootOf(projects[k])) # {}
        /\ ReachedIn("children", RootOf(projects[k])) # {}

-----------------------------------------------------------------------------
(* The filesystem probe: claims.                                           *)

\* cwd and its ancestors, written without the walk
AncestorsOf(dir) == { SubSeq(dir, 1, k) : k \in 0..Len(dir) }

\* the ancestors-or-self of the probe's cwd that contain the file asked for
Holders == { d \in AncestorsOf(pCwd) : join(d, pFile) \in files }

\* C9: findFileUpwards(cwd, f) returns the nearest directory among cwd and its
\* ancestors that contains f, and returns null, without throwing, when no
\* directory up to and including the root contains f.
C9_NearestOrNull ==
  (pPc = "done" /\ pFn = "first") =>
     /\ IF Holders = {}
        THEN pRet = NoDir
        ELSE /\ pRet \in Holders
             /\ \A d \in Holders : Len(d) <= Len(pRet)
     /\ pRet = findFileUpwards(pCwd, pFile)

\* C9's case: the file lies in two ancestors, none of them cwd, and the call returned
C9_Witness ==
  /\ pPc = "done" /\ pFn = "first"
  /\ Cardinality(Holders) >= 2
  /\ pCwd \notin Holders
  /\ pRet # NoDir

\* the bound of C10 on the existence checks made so far
ChecksBounded ==
  /\ Len(visited) <= Len(pCwd) + 1
  /\ \A i \in 1..Len(visited) : visited[i] \in AncestorsOf(pCwd)
  /\ \A i \in 1..(Len(visited) - 1) : Len(visited[i + 1]) < Len(visited[i])
  /\ (pPc = "done" /\ pFn = "all") => visited[Len(visited)] = root
  /\ (pPc = "done" /\ pFn = "first" /\ pRet = NoDir) => visited[Len(visited)] = root

\* C10: findFileUpwards and findAllFilesUpwards always terminate: from a directory
\* n segments below the root they make at most n+1 existence checks, each on a
\* strictly shallower directory than the one before, and stop at the root.
C10_Terminates == [](pPc # "idle" => ChecksBounded) /\ <>(pPc = "done")

\* C10's case: a walk from the deepest directory that made all n+1 checks
C10_Witness ==
  /\ pPc = "done"
  /\ Len(pCwd) = MaxDepth
  /\ Len(visited) = MaxDepth + 1


-----------------------------------------------------------------------------
(* NodeJSDetector.parse: claims.                                           *)

\* the lock files in the project root
LocksPresent == { f \in NodeLockFiles : join(nRoot, f) \in files }

\* the parse of the Node.js project returned a PackageInfo
NodeParsed == nPc = "done" /\ nRoot # NoDir /\ ~nInfo.threw

\* C11: for every subset of the lock files bun.lockb, bun.lock, pnpm-lock.yaml,
\* yarn.lock, package-lock.json in a Node project root, the resolved package
\* manager is the highest-priority one present in the order bun > pnpm > yarn >
\* npm, and npm when none is present.
C11_LockPriority ==
  NodeParsed =>
     nInfo.packageManager =
        IF LocksPresent \cap {"bun.lockb", "bun.lock"} # {} THEN "bun"
        ELSE IF "pnpm-lock.yaml" \in LocksPresent THEN "pnpm"
        ELSE IF "yarn.lock" \in LocksPresent THEN "yarn"
        ELSE "npm"

\* C11's case: the lock files of pnpm, yarn and npm are all present and pnpm won
C11_Witness ==
  /\ NodeParsed
  /\ LocksPresent = {"pnpm-lock.yaml", "yarn.lock", "package-lock.json"}
  /\ nInfo.packageManager = "pnpm"

\* the ancestors-or-self of the project root that hold a package.json, those
\* above the project root, and those of them whose manifest declares workspaces
PkgRoots == { d \in { SubSeq(nRoot, 1, k) : k \in 0..Len(nRoot) } : join(d, "package.json") \in files }
OuterRoots == PkgRoots \ {nRoot}
Declaring == OuterRoots \cap workspaceDirs

\* the deepest directory of a non-empty set of directories on one chain
Deepest(S) == CHOOSE d \in S : \A e \in S : Len(e) <= Len(d)

\* C14: when two or more ancestor-or-self directories of a Node project root
\* hold package.json, detectWorkspace returns Workspace Info for the nearest
\* ancestor above the project root whose manifest has a workspaces field, with
\* workspaceRoot that ancestor and relativePath the path from it to the project
\* root; declaring ancestors farther out are ignored.
C14_NearestDeclaringAncestor ==
  (NodeParsed /\ Cardinality(PkgRoots) >= 2 /\ Declaring # {}) =>
     LET ws == Deepest(Declaring)
     IN  /\ nInfo.workspace.isWorkspace
         /\ nInfo.workspace.workspaceRoot = ws
         /\ ws \o nInfo.workspace.relativePath = nRoot
         /\ Len(nInfo.workspace.relativePath) = Len(nRoot) - Len(ws)

\* C14's case: the parent of the project root has a manifest without workspaces,
\* the two directories above it both declare workspaces, and the nearer of the
\* two is the workspace root, two segments above the project
C14_Witness ==
  /\ NodeParsed
  /\ Cardinality(PkgRoots) = 4
  /\ Cardinality(Declaring) = 2
  /\ nInfo.workspace.workspaceRoot = SubSeq(nRoot, 1, 1)
  /\ nInfo.workspace.relativePath = SubSeq(nRoot, 2, 3)

\* C15: detectWorkspace returns no Workspace Info when exactly one package.json
\* exists in the ancestor chain, and when several exist but no ancestor manifest
\* has a workspaces field; a workspaces field in the nearest manifest alone
\* never produces Workspace Info.
C15_NoWorkspaceInfo ==
  (NodeParsed /\ Declaring = {}) => nInfo.workspace = NoWorkspace

\* C15's case: three manifests in the chain, workspaces declared by the project's
\* own manifest only, and no Workspace Info
C15_Witness ==
  /\ NodeParsed
  /\ Cardinality(PkgRoots) = 3
  /\ workspaceDirs = {nRoot}
  /\ nInfo.workspace = NoWorkspace

\* C16: whenever a PackageInfo carries Workspace Info, its workspaceRoot is a
\* proper ancestor directory of the project root (not the project root, not a
\* directory off the ancestor chain), and isWorkspace is true.
C16_WorkspaceRootIsAncestor ==
  (NodeParsed /\ nInfo.workspace # NoWorkspace) =>
     /\ nInfo.workspace.isWorkspace
     /\ \E k \in 0..(Len(nRoot) - 1) : nInfo.workspace.workspaceRoot = SubSeq(nRoot, 1, k)

\* C16's case: Workspace Info whose root is the filesystem root, with the
\* project's own manifest declaring workspaces too
C16_Witness ==
  /\ NodeParsed
  /\ nInfo.workspace # NoWorkspace
  /\ nRoot \in workspaceDirs
  /\ nInfo.workspace.workspaceRoot = root

\* C17: the override file is applied for every ecosystem: for a Node.js project
\* whose root holds .wami.json, the command list NodeJSDetector.parse returns
\* has no command of a name listed in ignore, and has every entry of commands
\* with the configured command string.
C17_NodeOverridesApplied ==
  (NodeParsed /\ join(nRoot, ".wami.json") \in files) =>
     /\ \A i \in 1..Len(wamiConfig.ignore) :
           \/ wamiConfig.ignore[i] \notin NamesOf(nInfo.scripts)
           \/ \E k \in 1..Len(wamiConfig.commands) :
                 wamiConfig.commands[k].name = wamiConfig.ignore[i]
     /\ \A k \in 1..Len(wamiConfig.commands) :
           \E j \in 1..Len(nInfo.scripts) :
              /\ nInfo.scripts[j].name = wamiConfig.commands[k].name
              /\ nInfo.scripts[j].command = wamiConfig.commands[k].value.command

-----------------------------------------------------------------------------
(* PythonDetector.parse: the package manager.                              *)

\* the parse of the Python project returned a PackageInfo
PyParsed == pyPc = "done" /\ pyRoot # NoDir /\ ~pyInfo.threw

\* a file of that name lies in the project root
InRoot(fileName) == join(pyRoot, fileName) \in files

\* the manifest has that table
HasTable(table) == table \in manifest.tables

\* C12: with pyproject.toml the Python package manager is poetry if the poetry
\* table or poetry.lock exists, else pdm if the pdm table or pdm.lock exists,
\* else uv if uv.lock exists, else pip; without pyproject.toml it is pipenv if
\* Pipfile exists, else pip.
C12_PythonManager ==
  PyParsed =>
     LET pm == pyInfo.packageManager
         poetry == HasTable("tool.poetry") \/ InRoot("poetry.lock")
         pdm == HasTable("tool.pdm") \/ InRoot("pdm.lock")
     IN  /\ InRoot("pyproject.toml") =>
              /\ pm = "poetry" <=> poetry
              /\ pm = "pdm" <=> (~poetry /\ pdm)
              /\ pm = "uv" <=> (~poetry /\ ~pdm /\ InRoot("uv.lock"))
              /\ pm = "pip" <=> (~poetry /\ ~pdm /\ ~InRoot("uv.lock"))
         /\ ~InRoot("pyproject.toml") =>
              /\ pm = "pipenv" <=> InRoot("Pipfile")
              /\ pm = "pip" <=> ~InRoot("Pipfile")

\* C12's case: a pyproject.toml with a pdm table beside poetry.lock and uv.lock
\* resolves to poetry
C12_Witness ==
  /\ PyParsed
  /\ InRoot("pyproject.toml") /\ InRoot("Pipfile")
  /\ manifest.tables = {"tool.pdm"}
  /\ InRoot("poetry.lock") /\ InRoot("uv.lock") /\ ~InRoot("pdm.lock")
  /\ pyInfo.packageManager = "poetry"

-----------------------------------------------------------------------------
(* PythonDetector.buildCommand: claims.                                    *)

\* the command of the list that buildCommand was asked for
Picked == bInfo.scripts[Least(Positions(bInfo.scripts, bName))]

\* the stored command string contains the manager name or one of the four
\* "<manager> run" invocations
AlreadyWrapped(command) ==
  \/ includesString(command, <<bInfo.packageManager>>)
  \/ \E pm \in {"uv", "poetry", "pdm", "pipenv"} : includesString(command, <<pm, "run">>)

\* seq starts with the words of prefix
StartsWithWords(seq, prefix) ==
  Len(seq) >= Len(prefix) /\ SubSeq(seq, 1, Len(prefix)) = prefix

\* C13: buildCommand never double-wraps: a command of the list whose stored
\* string already contains the manager's invocation (the manager name, or
\* "uv run", "poetry run", "pdm run", "pipenv run") is returned unchanged, and
\* every other command gets the manager's run prefix prepended exactly once.
C13_NeverDoubleWraps ==
  (bPc = "done" /\ Positions(bInfo.scripts, bName) # {}) =>
     LET prefix == runPrefix(bInfo.packageManager)
     IN  /\ AlreadyWrapped(Picked.command) => bOut = Picked.command
         /\ ~AlreadyWrapped(Picked.command) => bOut = prefix \o Picked.command
         /\ prefix # <<>> => ~StartsWithWords(bOut, prefix \o prefix)

\* C13's case: under poetry, a command stored as "poetry run pytest" came back as
\* it was, where a bare one would have been wrapped
C13_Witness ==
  /\ bPc = "done" /\ bInfo.packageManager = "poetry"
  /\ Positions(bInfo.scripts, bName) # {}
  /\ Picked.command = <<"poetry", "run", "pytest">>
  /\ bOut = <<"poetry", "run", "pytest">>
  /\ \E i \in 1..Len(bInfo.scripts) : bInfo.scripts[i].command = <<"pytest">>

\* ---------------------------------------------------------------------------
\* GoDetector.parse: claims
\* ---------------------------------------------------------------------------

\* detect has found the module root and parse has returned its info
GoParsed == goPc = "done" /\ goRoot # NoDir /\ ~goInfo.threw

\* the command names extracted from the Makefile and the Taskfile of the root
ExtractedNames ==
  (IF join(goRoot, "Makefile") \in files
   THEN { makeName(t) : t \in Range(makefile.phony) \cup Range(makefile.rules) } ELSE {})
  \cup
  (IF \E f \in {"Taskfile.yml", "Taskfile.yaml", "taskfile.yml", "taskfile.yaml"} :
         join(goRoot, f) \in files
   THEN { taskName(k) : k \in Range(taskfile) \ reserved } ELSE {})

\* the positions of the list holding a command of this name
GoPositions(name) == { i \in 1..Len(goInfo.scripts) : goInfo.scripts[i].name = name }

\* C20: without an override file, GoDetector.parse lists a built-in command
\* exactly when no command extracted from the Makefile or the Taskfile has its
\* name, and a target named both on a .PHONY line and as a rule is listed once,
\* as make:<target>
C20_BuiltinsUnlessSameName ==
  (GoParsed /\ loadConfig(goRoot).isNull) =>
     /\ \A i \in 1..Len(getDefaultGoScripts) :
           LET b == getDefaultGoScripts[i]
           IN  (\E j \in GoPositions(b.name) : goInfo.scripts[j].command = b.command)
                  <=> b.name \notin ExtractedNames
     /\ join(goRoot, "Makefile") \in files =>
           \A t \in Range(makefile.phony) \cap Range(makefile.rules) :
              /\ Cardinality(GoPositions(makeName(t))) = 1
              /\ \A j \in GoPositions(makeName(t)) : goInfo.scripts[j].command = <<"make", t>>

\* C20 witness: a Makefile naming build on a .PHONY line and as a rule, next to
\* a Taskfile, has been parsed
C20_Witness ==
  /\ GoParsed /\ loadConfig(goRoot).isNull
  /\ join(goRoot, "Makefile") \in files
  /\ "build" \in Range(makefile.phony) \cap Range(makefile.rules)
  /\ "task:lint" \in ExtractedNames
  /\ GoPositions("make:build") # {} /\ GoPositions("build") # {}

\* ---------------------------------------------------------------------------
\* DetectorRegistry: Go projects
\* ---------------------------------------------------------------------------

\* the marker files in the working directory of detect and above it
ChainMarkers == { f \in files : f[1] \in Ancestors(rCwd) }

\* C18: detect, on a chain of directories whose only marker file is go.mod,
\* returns found with the Go detector and a list holding the Go built-in
\* commands, and Go is among the ecosystems the registry supports
C18_GoProjectFound ==
  (dPc = "done" /\ custom = "absent"
     /\ ChainMarkers # {} /\ \A f \in ChainMarkers : f[2] = "go.mod") =>
     /\ dResult.found
     /\ dResult.detector = "Go"
     /\ \A i \in 1..Len(getDefaultGoScripts) :
           getDefaultGoScripts[i].name \in NamesOf(dResult.packageInfo.scripts)
     /\ "Go" \in Range(detectors)

\* ---------------------------------------------------------------------------
\* loadConfig: an override file that is not valid JSON
\* ---------------------------------------------------------------------------

\* the override file loadConfig reads in the root: the first of the two names
\* that exists
FirstConfig ==
  IF InRoot(".wami.json") THEN join(pyRoot, ".wami.json")
  ELSE IF InRoot("wami.json") THEN join(pyRoot, "wami.json")
  ELSE NoPath

\* the list parse returns for the same root without the file FirstConfig: the
\* other override file, when it exists and parses, is then the one applied
ListWithoutFirstConfig ==
  IF FirstConfig = join(pyRoot, ".wami.json") /\ InRoot("wami.json")
     /\ join(pyRoot, "wami.json") \notin malformed
  THEN applyConfig(parsedMarker(pyRoot).scripts,
                   [isNull |-> FALSE, commands |-> wamiConfig.commands,
                    ignore |-> wamiConfig.ignore])
  ELSE parsedMarker(pyRoot).scripts

\* C19: when the override file of the root is not valid JSON, loadConfig returns
\* null, parse does not throw and the list it returns is the list it would
\* return if that file were absent
C19_MalformedOverrideAsAbsent ==
  (pyPc = "done" /\ pyRoot # NoDir /\ FirstConfig # NoPath /\ FirstConfig \in malformed) =>
     /\ loadConfig(pyRoot).isNull
     /\ ~pyInfo.threw
     /\ pyInfo.scripts = ListWithoutFirstConfig

\* ---------------------------------------------------------------------------
\* parse: commands inferred from dev-tool dependencies
\* ---------------------------------------------------------------------------

\* the commands the manifest and the task runners of the parsed Python project
\* declare, in the order parsePyProject lists them
PyDeclared == managerScripts(manifest, pyInfo.packageManager) \o parseAll(manifest)

\* the commands the package.json of the parsed Node.js project declares
NodeDeclared == extractScripts(packageJson)

\* the list starts with the declared commands, unchanged, and no later command
\* has the name of one of them
DeclaredKept(scripts, declared) ==
  /\ Len(scripts) >= Len(declared)
  /\ SubSeq(scripts, 1, Len(declared)) = declared
  /\ \A j \in (Len(declared) + 1)..Len(scripts) :
        \A i \in 1..Len(declared) : scripts[j].name # declared[i].name

\* C21: a command inferred from a dev-tool dependency is dropped when a command
\* declared by the manifest or a task runner has its name, and the declared
\* command stays unchanged at its position, in the Python detector (for a
\* pyproject.toml without an override file) and in the Node.js detector
C21_InferredYieldsToDeclared ==
  /\ (PyParsed /\ InRoot("pyproject.toml") /\ loadConfig(pyRoot).isNull) =>
        DeclaredKept(pyInfo.scripts, PyDeclared)
  /\ (nPc = "done" /\ nRoot # NoDir /\ ~nInfo.threw) =>
        DeclaredKept(nInfo.scripts, NodeDeclared)

\* C21 witness: a pyproject.toml declaring a script named test and depending
\* on pytest has been parsed; pytest's other commands are in the list
C21_Witness ==
  /\ PyParsed /\ InRoot("pyproject.toml") /\ loadConfig(pyRoot).isNull
  /\ "pytest>=7.0" \in manifest.deps
  /\ \E i \in 1..Len(PyDeclared) :
        PyDeclared[i].name = "test" /\ pyInfo.scripts[i] = PyDeclared[i]
  /\ \E j \in 1..Len(pyInfo.scripts) : pyInfo.scripts[j].name = "test-verbose"

\* ---------------------------------------------------------------------------
\* DetectorRegistry.detectAll: the directories probed
\* ---------------------------------------------------------------------------

\* the directory lies below the working directory of detectAll
BelowCwd(dir) == Len(dir) > Len(rCwd) /\ SubSeq(dir, 1, Len(rCwd)) = rCwd

\* C22: detectAll probes, in no phase of its scan, a directory whose name
\* starts with a dot or is node_modules, nor a directory more than two levels
\* below the working directory
C22_NoHiddenOrNoiseProbed ==
  \A k \in 1..Len(aLog) :
     LET dir == aLog[k][2]
     IN  /\ ~startsWithDot(basename(dir))
         /\ basename(dir) # "node_modules"
         /\ BelowCwd(dir) => Len(dir) - Len(rCwd) <= maxDepth

\* ---------------------------------------------------------------------------
\* PythonDetector.detect: the root returned
\* ---------------------------------------------------------------------------

\* the working directory and its ancestors that hold a Python marker file
MarkerDirs ==
  { d \in Ancestors(pyCwd) : \E f \in PythonMarkers : join(d, f) \in files }

\* C23: PythonDetector.detect returns the nearest of the working directory and
\* its ancestors that holds any Python marker file, or null when none does, also
\* when a marker of lower priority lies nearer than one of higher priority
C23_NearestMarkerRoot ==
  pyPc \in {"parse", "done"} =>
     IF MarkerDirs = {} THEN pyRoot = NoDir
     ELSE pyRoot \in MarkerDirs /\ \A d \in MarkerDirs : Len(d) <= Len(pyRoot)

\* ---------------------------------------------------------------------------
\* The command history: claims
\* ---------------------------------------------------------------------------

\* C25: after any sequence of completed addToHistory, deleteFromHistory and
\* clearHistory calls, every project's history holds at most 10 entries, no two
\* of them with the same command; the entry of the latest addToHistory, while it
\* exists, is first; and an entry's count is the number of addToHistory calls
\* for its command since the command was last absent
C25_HistoryWellFormed ==
  \A p \in HistProjects :
     LET h == store[p].history
     IN  /\ Len(h) <= 10
         /\ \A i, j \in 1..Len(h) : h[i].command = h[j].command => i = j
         /\ lastAdded[p] \in CommandsIn(store, p) => h[1].command = lastAdded[p]
         /\ \A i \in 1..Len(h) : h[i].count = adds[p][h[i].command]

\* C25 witness: a full history has taken one more command and a repeated one
C25_Witness ==
  /\ hCalls = MaxCalls
  /\ Len(store["/work/api"].history) = 10
  /\ HistCommands[10] \notin CommandsIn(store, "/work/api")
  /\ \E i \in 1..10 : store["/work/api"].history[i].count = 2

\* ---------------------------------------------------------------------------
\* NodeJSDetector.parse: a package.json above the project that does not parse
\* ---------------------------------------------------------------------------

\* C26: when the package.json of the root parses and one in a directory above
\* it does not, NodeJSDetector.parse still returns the description of the root
\* instead of throwing
C26_MalformedAncestorTolerated ==
  (/\ nPc = "done" /\ nRoot # NoDir
   /\ join(nRoot, "package.json") \notin malformed
   /\ \E d \in Ancestors(nRoot) \ {nRoot} : join(d, "package.json") \in malformed) =>
     /\ ~nInfo.threw
     /\ nInfo.path = join(nRoot, "package.json")

\* ---------------------------------------------------------------------------
\* DetectorRegistry: detect and detectAll on the current project
\* ---------------------------------------------------------------------------

\* C27: when detect returned found with root R and detector D, the list
\* detectAll returns for the same cwd starts with an entry for R produced by D
C27_DetectAllAgreesWithDetect ==
  (dPc = "done" /\ aPc = "done" /\ dResult.found) =>
     /\ projects # <<>>
     /\ RootOf(projects[1]) = RootOf(dResult)
     /\ projects[1].detector = dResult.detector

\* ---------------------------------------------------------------------------
\* ScriptList: claims
\* ---------------------------------------------------------------------------

\* the history entries among the rows shown: those the filter lets through
ShownHistory ==
  IF searchQuery = <<>> THEN uHistory
  ELSE SelectSeq(uHistory, LAMBDA script : matchesQuery(script, searchQuery))

\* a row is highlighted and it is a history entry
HistoryHighlighted == selectedIndex >= 0 /\ selectedIndex < Len(ShownHistory)

\* C24: a press of d that deletes anything happens with a history entry
\* highlighted, takes exactly that entry off the history shown and starts the
\* deletion of exactly its command from the history file; with a script
\* highlighted that is no history entry, d removes nothing
C24_DeleteRemovesHighlighted ==
  [][ KeyDelete =>
        /\ HistoryHighlighted
        /\ uHistory' = SelectSeq(uHistory, LAMBDA script :
                                   script # ShownHistory[selectedIndex + 1])
        /\ ops'[Len(ops')].command = ShownHistory[selectedIndex + 1].command ]_vars

\* C28: once every deleteFromHistory call that was started has returned, the
\* history file holds none of the commands they were to delete, also when the
\* calls overlapped
C28_NoLostDelete ==
  (\A k \in 1..Len(ops) : ops[k].pc = "done") =>
     \A k \in 1..Len(ops) : ops[k].command \notin CommandsIn(store, UIProject)

\* C29: selectedIndex stays within 0..max(0, n-1), n the length of the list
\* shown, whatever keys were pressed
C29_SelectedIndexInRange ==
  /\ selectedIndex >= 0
  /\ selectedIndex <= mathMax(0, Len(allScripts) - 1)

-----------------------------------------------------------------------------
(* The Python tool registry: claims.                                       *)

\* the names and commands of a list of scripts, in order, descriptions aside
namesAndCommands(scripts) ==
  [i \in 1..Len(scripts) |-> <<scripts[i].name, scripts[i].command>>]

\* both functions have been called on the same arguments
BothCalled == tPc = ToolFunctions

\* C30: on the same dependency set and project root, pythonToolRegistry.detect
\* and detectPythonTools return commands of the same names and command
\* strings in the same order, descriptions aside, and both return nothing for
\* the empty dependency set
C30_RegistryMatchesDetector ==
  BothCalled =>
    /\ namesAndCommands(tRegistry) = namesAndCommands(tDetector)
    /\ tDeps = {} => tRegistry = <<>> /\ tDetector = <<>>

\* every tool is installed, the project has no docs entry though its parent
\* has one, and the two lists differ in their descriptions only
C30_Witness ==
  /\ BothCalled
  /\ tDeps = DependencyNames
  /\ files = {join(dirname(ProjectSrc), "docs")}
  /\ Len(tRegistry) > Cardinality(ToolPackages)
  /\ tRegistry # tDetector

====
